---- MODULE Spec2Model ----
(***************************************************************************)
(* A model of doxx's document reconstruction (src/src/document.rs):        *)
(* load_document's forward pass over the body blocks, the heading number   *)
(* tracker, the manual heading number patterns, the text heuristics and    *)
(* the list grouping pass.                                                 *)
(*                                                                         *)
(* Text is a sequence of characters; a character is a one-character        *)
(* string, except the multi-byte glyphs, which are named by code point.    *)
(* String lengths are byte lengths (Rust's str::len), so a glyph counts    *)
(* its UTF-8 width.                                                        *)
(***************************************************************************)
EXTENDS Integers, Sequences, FiniteSets, TLC

VARIABLES
    children,              \* docx.document.children read so far (the input blocks)
    elements,              \* load_document's `elements` vector (forward pass)
    word_count,            \* load_document's `word_count`
    heading_tracker,       \* HeadingNumberTracker.counters, index 1..6 is Rust 0..5
    tracker_log,           \* history: one record per get_number call
    pc,                    \* position in load_document
    grouped,               \* the vector group_list_items returns
    document,              \* the Document returned (None until built)
    ex_text,               \* extract_heading_number_from_text: the argument
    ex_out                 \* extract_heading_number_from_text: None until it
                           \* has returned, then Some(the value returned)

loadVars  == <<children, elements, word_count, pc, document>>
groupVars == <<grouped>>
trackVars == <<heading_tracker, tracker_log>>
exVars    == <<ex_text, ex_out>>
vars      == <<children, elements, word_count, heading_tracker, tracker_log, pc,
               grouped, document,
               ex_text, ex_out>>

\* Option<T>: None is the empty sequence, Some(x) the sequence holding x
None      == <<>>
Some(x)   == <<x>>
Unwrap(o) == o[1]

\* the outcome of a call that panics instead of returning
Panic == <<None, None>>

\* ------------------------------------------------------------------ bounds
MaxBlocks    == 3   \* body blocks per document
MaxHeadings  == 4   \* get_number calls followed in the tracker specification
MaxListLevel == 5   \* deepest level of the numbering metadata
MaxTableRows == 3   \* rows of a table
MaxColumnCells == 10 \* data cells of the one-column tables
MaxPairBlocks == 2  \* blocks of each of two conversions in flight
MaxLeadBytes  == 78 \* ASCII bytes before the multi-byte part of a result text
MaxQuery      == 1  \* characters typed into the search query
MaxLeadSpaces == 40 \* leading spaces of a list paragraph (and 510..513)
MaxRuns      == 3   \* children of a paragraph

\* -------------------------------------------------------------- characters
BULLET   == "U+2022"
GLYPH_REC  == "U+23FA"
GLYPH_HOOK == "U+23BF"
GLYPH_BOX  == "U+2610"
GLYPH_XBOX == "U+2612"

EURO       == "U+20AC"
POUND      == "U+00A3"
COMBINING_ACUTE == "U+0301"   \* extends the grapheme cluster of the character before it

Glyphs == {BULLET, GLYPH_REC, GLYPH_HOOK, GLYPH_BOX, GLYPH_XBOX, EURO}

Digits == {"0", "1", "2", "3", "4", "5", "6", "7", "8", "9"}
Uppers == {"A", "B", "C", "D", "E", "F", "G", "H", "I", "J", "K", "L", "M",
           "N", "O", "P", "Q", "R", "S", "T", "U", "V", "W", "X", "Y", "Z"}
Lowers == {"a", "b", "c", "d", "e", "f", "g", "h", "i", "j", "k", "l", "m",
           "n", "o", "p", "q", "r", "s", "t", "u", "v", "w", "x", "y", "z"}
Spaces == {" ", "\t", "\n"}
Puncts == {".", ",", ";", ":", "(", ")", "!", "?", "-", "*", "_", "/", "$", "%",
           "#", "&", "+", "<", "=", ">", "@", "[", "]", "{", "|", "}", "~"}

is_whitespace(c)        == c \in Spaces
is_numeric(c)           == c \in Digits
is_ascii_digit(c)       == c \in Digits
is_uppercase(c)         == c \in Uppers
is_ascii_uppercase(c)   == c \in Uppers
is_ascii_lowercase(c)   == c \in Lowers
is_alphabetic(c)        == c \in Uppers \cup Lowers
is_ascii_punctuation(c) == c \in Puncts

\* UTF-8 width of a character
len_utf8(c) == IF c \in Glyphs THEN 3 ELSE IF c \in {POUND, COMBINING_ACUTE} THEN 2 ELSE 1

\* ----------------------------------------------------------------- strings
\* str::len, the bytes: one for each character and one more for each byte
\* of a character after its first
len(s) ==
    Len(s) + Cardinality({i \in 1..Len(s) : len_utf8(s[i]) >= 2})
           + Cardinality({i \in 1..Len(s) : len_utf8(s[i]) >= 3})
           + Cardinality({i \in 1..Len(s) : len_utf8(s[i]) >= 4})

is_empty(s) == s = <<>>

starts_with(s, p) == Len(p) <= Len(s) /\ SubSeq(s, 1, Len(p)) = p
ends_with(s, p)   == Len(p) <= Len(s) /\ SubSeq(s, Len(s) - Len(p) + 1, Len(s)) = p

\* the characters of s from position i (1-based) on
From(s, i) == SubSeq(s, i, Len(s))

contains(s, p) == \E i \in 1..(Len(s) + 1) : starts_with(From(s, i), p)

\* 1-based position of the first occurrence of character c, 0 when absent
find(s, c) ==
    IF \E i \in 1..Len(s) : s[i] = c
    THEN CHOOSE i \in 1..Len(s) : s[i] = c /\ \A j \in 1..(i - 1) : s[j] # c
    ELSE 0

\* number of non-overlapping occurrences of p, scanning left to right
RECURSIVE matches_count(_, _)
matches_count(s, p) ==
    IF Len(s) < Len(p) THEN 0
    ELSE IF starts_with(s, p) THEN 1 + matches_count(From(s, Len(p) + 1), p)
    ELSE matches_count(Tail(s), p)

trim_start(s) ==
    IF \A i \in 1..Len(s) : is_whitespace(s[i]) THEN <<>>
    ELSE From(s, CHOOSE i \in 1..Len(s) :
                   ~is_whitespace(s[i]) /\ \A j \in 1..(i - 1) : is_whitespace(s[j]))

RECURSIVE trim_end(_)
trim_end(s) ==
    IF s # <<>> /\ is_whitespace(s[Len(s)])
    THEN trim_end(SubSeq(s, 1, Len(s) - 1)) ELSE s

trim(s) == trim_end(trim_start(s))

RECURSIVE trim_end_matches(_, _)
trim_end_matches(s, c) ==
    IF s # <<>> /\ s[Len(s)] = c
    THEN trim_end_matches(SubSeq(s, 1, Len(s) - 1), c) ELSE s

\* str::split_whitespace().count()
RECURSIVE split_whitespace_count(_)
split_whitespace_count(s) ==
    LET t == trim_start(s) IN
    IF t = <<>> THEN 0
    ELSE LET k == IF \E i \in 1..Len(t) : is_whitespace(t[i])
                  THEN CHOOSE i \in 1..Len(t) :
                         is_whitespace(t[i]) /\ \A j \in 1..(i - 1) : ~is_whitespace(t[j])
                  ELSE Len(t) + 1
         IN 1 + split_whitespace_count(From(t, k))

\* the whitespace-separated words of s
RECURSIVE split_whitespace(_)
split_whitespace(s) ==
    LET t == trim_start(s) IN
    IF t = <<>> THEN <<>>
    ELSE LET k == IF \E i \in 1..Len(t) : is_whitespace(t[i])
                  THEN CHOOSE i \in 1..Len(t) :
                         is_whitespace(t[i]) /\ \A j \in 1..(i - 1) : ~is_whitespace(t[j])
                  ELSE Len(t) + 1
         IN <<SubSeq(t, 1, k - 1)>> \o split_whitespace(From(t, k))

\* u32::to_string
RECURSIVE to_string(_)
to_string(n) ==
    LET d == <<"0", "1", "2", "3", "4", "5", "6", "7", "8", "9">> IN
    IF n < 10 THEN <<d[n + 1]>> ELSE to_string(n \div 10) \o <<d[(n % 10) + 1]>>

\* [String]::join(sep)
RECURSIVE join(_, _)
join(parts, sep) ==
    IF parts = <<>> THEN <<>>
    ELSE IF Len(parts) = 1 THEN parts[1]
    ELSE parts[1] \o sep \o join(Tail(parts), sep)

Min(a, b) == IF a < b THEN a ELSE b

\* ---------------------------------------------------- HeadingNumberTracker
\* HeadingNumberTracker::new
HeadingNumberTracker_new == [i \in 1..6 |-> 0]

\* (level.saturating_sub(1) as usize).min(5), as a 1-based index
level_index(level) == Min(IF level = 0 THEN 0 ELSE level - 1, 5) + 1

\* get_number without the reset loop: deeper counters keep their value
get_number_counters_keep_deeper(counters, level) ==
    [i \in 1..6 |->
        IF i = level_index(level) THEN counters[i] + 1 ELSE counters[i]]

\* get_number, the counters after the call: increment, then reset deeper levels
get_number_counters(counters, level) ==
    [i \in 1..6 |->
        IF i = level_index(level) THEN counters[i] + 1
        ELSE IF i > level_index(level) THEN 0
        ELSE counters[i]]

\* get_number, the parts pushed: counters 0..=level_index that are > 0
RECURSIVE number_parts(_, _)
number_parts(counters, upto) ==
    IF upto = 0 THEN <<>>
    ELSE number_parts(counters, upto - 1)
           \o (IF counters[upto] > 0 THEN <<to_string(counters[upto])>> ELSE <<>>)

\* get_number pushing every counter 0..=level_index, zero or not
get_number_with_zeros(counters, level) ==
    join([i \in 1..level_index(level) |->
             to_string(get_number_counters(counters, level)[i])], <<".">>)

\* get_number, the string returned
get_number(counters, level) ==
    join(number_parts(get_number_counters(counters, level), level_index(level)), <<".">>)

\* one get_number call, logged
TrackerCall(level, src) ==
    /\ heading_tracker' = get_number_counters(heading_tracker, level)
    /\ tracker_log' = Append(tracker_log,
                             [level  |-> level,
                              src    |-> src,
                              before |-> heading_tracker,
                              after  |-> get_number_counters(heading_tracker, level),
                              number |-> get_number(heading_tracker, level)])

\* ------------------------------------------------ HEADING_NUMBER_PATTERNS
S_Section == <<"S", "e", "c", "t", "i", "o", "n">>
S_Chapter == <<"C", "h", "a", "p", "t", "e", "r">>
S_Part    == <<"P", "a", "r", "t">>
S_Introduction == <<"I", "n", "t", "r", "o", "d", "u", "c", "t", "i", "o", "n">>
S_Overview == <<"O", "v", "e", "r", "v", "i", "e", "w">>
S_Project_Overview == <<"P", "r", "o", "j", "e", "c", "t", " ">> \o S_Overview

\* position of the first character at or after i that is not whitespace
\* (Len(t) + 1 when there is none)
RECURSIVE skip_whitespace(_, _)
skip_whitespace(t, i) ==
    IF i <= Len(t) /\ is_whitespace(t[i]) THEN skip_whitespace(t, i + 1) ELSE i

\* position of the last character of the whitespace-free run starting at i
\* (i - 1 when t[i] is whitespace or i is past the end)
RECURSIVE token_end(_, _)
token_end(t, i) ==
    IF i <= Len(t) /\ ~is_whitespace(t[i]) THEN token_end(t, i + 1) ELSE i - 1

\* \d+(?:\.\d+)*\.?  matches the whole of s: digit groups separated by single
\* dots, with at most one dot after the last group
is_decimal_number(s) ==
    /\ s # <<>>
    /\ \A i \in 1..Len(s) : s[i] \in Digits \cup {"."}
    /\ s[1] \in Digits
    /\ \A i \in 1..(Len(s) - 1) : ~(s[i] = "." /\ s[i + 1] = ".")

\* Each pattern is ^(capture 1)\s+(.+)$ ; capture 1 has to be followed by
\* whitespace, so its end is where its last whitespace-free run ends. These
\* give the end position of capture 1 in t, 0 when capture 1 does not match.

\* ^(\d+(?:\.\d+)*\.?)
pattern_decimal(t) ==
    IF is_decimal_number(SubSeq(t, 1, token_end(t, 1))) THEN token_end(t, 1) ELSE 0

\* ^((?:Section|Chapter|Part)\s+\d+(?:\.\d+)*\.?)
pattern_section(t) ==
    IF \E kw \in {S_Section, S_Chapter, S_Part} :
          /\ starts_with(t, kw)
          /\ skip_whitespace(t, Len(kw) + 1) > Len(kw) + 1
          /\ is_decimal_number(SubSeq(t, skip_whitespace(t, Len(kw) + 1),
                                      token_end(t, skip_whitespace(t, Len(kw) + 1))))
    THEN LET kw == CHOOSE w \in {S_Section, S_Chapter, S_Part} : starts_with(t, w)
         IN token_end(t, skip_whitespace(t, Len(kw) + 1))
    ELSE 0

\* ^([A-Z]\.)
pattern_letter(t) ==
    IF Len(t) >= 2 /\ t[1] \in Uppers /\ t[2] = "." THEN 2 ELSE 0

\* ^([IVX]+\.)
pattern_roman(t) ==
    LET j == token_end(t, 1) IN
    IF /\ j >= 2
       /\ t[j] = "."
       /\ \A i \in 1..(j - 1) : t[i] \in {"I", "V", "X"}
    THEN j ELSE 0

\* The patterns in the order of the vector
HEADING_NUMBER_PATTERNS(t) ==
    <<pattern_decimal(t), pattern_section(t), pattern_letter(t), pattern_roman(t)>>

\* pattern.captures(text) for a capture 1 ending at j: \s+(.+)$ has to match
\* the rest; `.` does not match a line feed. None, or the two captures.
captures(t, j) ==
    LET k == skip_whitespace(t, j + 1) IN
    IF /\ j > 0
       /\ k > j + 1
       /\ k <= Len(t)
       /\ \A i \in k..Len(t) : t[i] # "\n"
    THEN Some([number_match |-> SubSeq(t, 1, j), text_match |-> From(t, k)])
    ELSE None

\* the loop body without trim_end_matches('.')
try_pattern_keep_dot(t, n) ==
    LET c == captures(t, HEADING_NUMBER_PATTERNS(t)[n]) IN
    IF c = None THEN None
    ELSE IF ~is_empty(Unwrap(c).number_match) /\ ~is_empty(trim(Unwrap(c).text_match))
    THEN Some([number |-> Unwrap(c).number_match, text |-> trim(Unwrap(c).text_match)])
    ELSE None

\* the body of the `for pattern` loop for pattern number n: None, or the pair
try_pattern(t, n) ==
    LET c == captures(t, HEADING_NUMBER_PATTERNS(t)[n]) IN
    IF c = None THEN None
    ELSE LET number         == trim_end_matches(Unwrap(c).number_match, ".")
             remaining_text == trim(Unwrap(c).text_match)
         IN IF ~is_empty(number) /\ ~is_empty(remaining_text)
            THEN Some([number |-> number, text |-> remaining_text])
            ELSE None

extract_heading_number_from_text(text) ==
    LET t == trim(text) IN
    IF is_empty(t) THEN None
    ELSE IF \E n \in 1..4 : try_pattern(t, n) # None
    THEN try_pattern(t, CHOOSE n \in 1..4 :
                          /\ try_pattern(t, n) # None
                          /\ \A m \in 1..(n - 1) : try_pattern(t, m) = None)
    ELSE None

\* -------------------------------------------------------- paragraph input
\* A paragraph is [kind |-> "Paragraph", style, numbering_property, children]:
\*   style              None or the style name (para.property.style.val)
\*   numbering_property None or [id |-> None or n, level |-> None or n]
\*   children           ParagraphChild values [kind |-> "Run" or "Insert", run]
\* A run is [children, bold, italic, underline, color]; its children are
\* [kind |-> "Text", text] or [kind |-> "Tab" / "Break" / "Drawing", text |-> <<>>].

S_Heading == <<"H", "e", "a", "d", "i", "n", "g">>
S_heading == <<"h", "e", "a", "d", "i", "n", "g">>
S_Image   == <<"[", "I", "m", "a", "g", "e", "]">>
S_WORD_LIST == <<"_", "_", "W", "O", "R", "D", "_", "L", "I", "S", "T", "_", "_">>

\* char::to_digit(10)
to_digit(c) == CHOOSE n \in 0..9 : to_string(n) = <<c>>

\* `val as u8`
as_u8(n) == n % 256

detect_heading_from_paragraph_style(para) ==
    IF para.style = None THEN None
    ELSE LET val == Unwrap(para.style) IN
         IF starts_with(val, S_Heading) \/ starts_with(val, S_heading)
         THEN IF val[Len(val)] \in Digits
              THEN Some(Min(to_digit(val[Len(val)]), 6))
              ELSE Some(1)
         ELSE None

\* ListInfo, or None
detect_list_from_paragraph_numbering(para) ==
    IF para.numbering_property = None THEN None
    ELSE LET num_pr == Unwrap(para.numbering_property)
             level  == IF num_pr.level = None THEN 0 ELSE as_u8(Unwrap(num_pr.level))
         IN Some([level      |-> level,
                  is_ordered |-> IF num_pr.id = None THEN FALSE
                                 ELSE IF Unwrap(num_pr.id) = 1 /\ level = 0 THEN FALSE
                                 ELSE IF Unwrap(num_pr.id) = 1 /\ level = 1 THEN TRUE
                                 ELSE IF Unwrap(num_pr.id) = 1 /\ level = 2 THEN TRUE
                                 ELSE IF Unwrap(num_pr.id) = 1 THEN level % 2 = 1
                                 ELSE TRUE])

\* extract_run_text
RECURSIVE extract_run_text_from(_)
extract_run_text_from(run_children) ==
    IF run_children = <<>> THEN <<>>
    ELSE (CASE Head(run_children).kind = "Text"    -> Head(run_children).text
            [] Head(run_children).kind = "Tab"     -> <<"\t">>
            [] Head(run_children).kind = "Break"   -> <<"\n">>
            [] Head(run_children).kind = "Drawing" -> S_Image
            [] OTHER -> <<>>)
         \o extract_run_text_from(Tail(run_children))

extract_run_text(run) == extract_run_text_from(run.children)

\* extract_paragraph_text: runs and inserted runs, trimmed
RECURSIVE paragraph_text_from(_)
paragraph_text_from(para_children) ==
    IF para_children = <<>> THEN <<>>
    ELSE (IF Head(para_children).kind \in {"Run", "Insert"}
          THEN extract_run_text(Head(para_children).run) ELSE <<>>)
         \o paragraph_text_from(Tail(para_children))

extract_paragraph_text(para) == trim(paragraph_text_from(para.children))

\* extract_numbering_info: None, or (num_id, level)
extract_numbering_info(num_pr) ==
    IF num_pr.id = None THEN None
    ELSE Some([num_id |-> Unwrap(num_pr.id),
               level  |-> IF num_pr.level = None THEN 0 ELSE as_u8(Unwrap(num_pr.level))])

reconstruct_heading_number(num_id, level, heading_level) ==
    CASE level = 0 /\ heading_level = 1 -> <<"1">>
      [] level = 1 /\ heading_level = 2 -> <<"1", ".", "1">>
      [] level = 2 /\ heading_level = 3 -> <<"1", ".", "1", ".", "1">>
      [] level = 3 /\ heading_level = 4 -> <<"1", ".", "1", ".", "1", ".", "1">>
      [] OTHER -> CASE heading_level = 1 -> <<"1">>
                    [] heading_level = 2 -> <<"1", ".", "1">>
                    [] heading_level = 3 -> <<"1", ".", "1", ".", "1">>
                    [] OTHER -> <<"1", ".", "1", ".", "1", ".", "1">>

\* HeadingInfo, or None
detect_heading_with_numbering(para) ==
    LET heading_level == detect_heading_from_paragraph_style(para)
        text          == extract_paragraph_text(para)
        manual        == extract_heading_number_from_text(text)
        num_pr        == para.numbering_property
    IN IF heading_level = None THEN None
       ELSE IF manual # None
       THEN Some([level      |-> Unwrap(heading_level),
                  number     |-> Some(Unwrap(manual).number),
                  clean_text |-> Some(Unwrap(manual).text)])
       ELSE IF num_pr # None /\ extract_numbering_info(Unwrap(num_pr)) # None
       THEN LET info == Unwrap(extract_numbering_info(Unwrap(num_pr))) IN
            Some([level      |-> Unwrap(heading_level),
                  number     |-> Some(reconstruct_heading_number(info.num_id, info.level,
                                                                 Unwrap(heading_level))),
                  clean_text |-> Some(text)])
       ELSE Some([level |-> Unwrap(heading_level), number |-> None, clean_text |-> None])

\* TextFormatting::default
TextFormatting_default ==
    [bold |-> FALSE, italic |-> FALSE, underline |-> FALSE, font_size |-> None, color |-> None]

extract_run_formatting(run) ==
    [bold |-> run.bold, italic |-> run.italic, underline |-> run.underline,
     font_size |-> None, color |-> run.color]

\* the `for child in &para.children` loop of load_document: the text of the
\* Text children of the runs, and the formatting, which a run replaces as long
\* as neither bold nor italic is set
RECURSIVE runs_text(_)
runs_text(para_children) ==
    IF para_children = <<>> THEN <<>>
    ELSE (IF Head(para_children).kind = "Run"
          THEN extract_run_text_from(
                   SelectSeq(Head(para_children).run.children, LAMBDA c : c.kind = "Text"))
          ELSE <<>>)
         \o runs_text(Tail(para_children))

\* the loop with every run replacing the formatting
RECURSIVE runs_formatting_last(_, _)
runs_formatting_last(para_children, formatting) ==
    IF para_children = <<>> THEN formatting
    ELSE runs_formatting_last(Tail(para_children),
             IF Head(para_children).kind = "Run"
             THEN extract_run_formatting(Head(para_children).run)
             ELSE formatting)

RECURSIVE runs_formatting(_, _)
runs_formatting(para_children, formatting) ==
    IF para_children = <<>> THEN formatting
    ELSE runs_formatting(Tail(para_children),
             IF Head(para_children).kind = "Run" /\ ~formatting.bold /\ ~formatting.italic
             THEN extract_run_formatting(Head(para_children).run)
             ELSE formatting)

\* --------------------------------------------------------- text heuristics
is_likely_list_item(raw) ==
    LET text == trim(raw) IN
    IF starts_with(text, S_WORD_LIST) THEN FALSE
    ELSE IF /\ text # <<>> /\ is_numeric(text[1])
            /\ find(text, ".") > 0
            /\ len(trim(From(text, find(text, ".") + 1))) > 20
    THEN TRUE
    ELSE IF \/ starts_with(text, <<BULLET, " ">>)
            \/ starts_with(text, <<"-", " ">>)
            \/ starts_with(text, <<"*", " ">>)
    THEN TRUE
    ELSE IF /\ len(text) > 3 /\ Len(text) >= 2 /\ text[2] = "."
            /\ (is_ascii_lowercase(text[1]) \/ is_ascii_uppercase(text[1]))
    THEN TRUE
    ELSE FALSE

is_likely_sentence(raw) ==
    LET text == trim(raw) IN
    \/ matches_count(text, <<".", " ">>) > 1
    \/ /\ len(text) > 80
       /\ (ends_with(text, <<".">>) \/ ends_with(text, <<"!">>) \/ ends_with(text, <<"?">>))
    \/ contains(text, <<" ", "a", "n", "d", " ">>)
    \/ contains(text, <<" ", "b", "u", "t", " ">>)
    \/ contains(text, <<" ", "h", "o", "w", "e", "v", "e", "r", " ">>)
    \/ contains(text, <<" ", "t", "h", "e", "r", "e", "f", "o", "r", "e", " ">>)

determine_heading_level_from_text(text) ==
    IF len(text) < 20 THEN 1 ELSE IF len(text) < 40 THEN 2 ELSE 3

\* None, or the heading level
detect_heading_from_text(raw, formatting) ==
    LET text == trim(raw) IN
    IF ~(len(text) < 100 /\ ~contains(text, <<"\n">>)) THEN None
    ELSE IF is_likely_list_item(text) \/ is_likely_sentence(text) THEN None
    ELSE IF \/ starts_with(text, <<GLYPH_REC>>) \/ starts_with(text, <<GLYPH_HOOK>>)
            \/ starts_with(text, <<GLYPH_BOX>>) \/ starts_with(text, <<GLYPH_XBOX>>)
    THEN None
    ELSE IF \/ contains(text, <<" ", "t", "h", "e", " ">>)
            \/ contains(text, <<" ", "a", "n", "d", " ">>)
            \/ contains(text, <<" ", "w", "i", "t", "h", " ">>)
            \/ contains(text, <<" ", "f", "o", "r", " ">>)
    THEN None
    ELSE IF /\ formatting.bold /\ len(text) < 60 /\ len(text) > 5
            /\ ~ends_with(text, <<".">>) /\ ~ends_with(text, <<",">>)
            /\ ~ends_with(text, <<";">>) /\ ~ends_with(text, <<":">>)
    THEN Some(determine_heading_level_from_text(text))
    ELSE IF /\ len(text) > 15 /\ len(text) < 50
            /\ \A i \in 1..Len(text) :
                  \/ is_uppercase(text[i]) \/ is_whitespace(text[i])
                  \/ is_numeric(text[i]) \/ is_ascii_punctuation(text[i])
    THEN Some(1)
    ELSE IF \/ starts_with(text, S_Chapter \o <<" ">>)
            \/ starts_with(text, S_Section \o <<" ">>)
            \/ starts_with(text, S_Part \o <<" ">>)
    THEN Some(determine_heading_level_from_text(text))
    ELSE IF /\ len(text) < 40 /\ len(text) > 10
            /\ ~ends_with(text, <<".">>) /\ ~contains(text, <<",">>)
            /\ ~contains(text, <<"(">>) /\ ~contains(text, <<":">>)
            /\ split_whitespace_count(text) \in 2..5
            /\ \E w \in 1..Len(split_whitespace(text)) :
                  /\ len(split_whitespace(text)[w]) > 3
                  /\ \A i \in 1..Len(split_whitespace(text)[w]) :
                        is_alphabetic(split_whitespace(text)[w][i])
            /\ is_uppercase(text[1])
    THEN Some(determine_heading_level_from_text(text))
    ELSE None

calculate_list_level(text) == as_u8((len(text) - len(trim_start(text))) \div 2)

clean_list_item_text(raw) ==
    LET text == trim(raw) IN
    IF starts_with(text, <<BULLET, " ">>) THEN trim(From(text, 3))
    ELSE IF starts_with(text, <<"-", " ">>) \/ starts_with(text, <<"*", " ">>)
    THEN trim(From(text, 3))
    ELSE IF /\ find(text, ".") > 0
            /\ \A i \in 1..(find(text, ".") - 1) : is_ascii_digit(text[i])
    THEN trim(From(text, find(text, ".") + 1))
    ELSE IF /\ len(text) > 3 /\ Len(text) >= 2 /\ text[2] = "."
            /\ (is_ascii_lowercase(text[1]) \/ is_ascii_uppercase(text[1]))
    THEN trim(From(text, 3))
    ELSE text

\* ------------------------------------------------------------------ tables
\* A table is [kind |-> "Table", rows]; a row is a sequence of cells and a cell
\* the sequence of the texts of its runs' Text children, in document order.
S_lower == <<"a", "b", "c", "d", "e", "f", "g", "h", "i", "j", "k", "l", "m",
             "n", "o", "p", "q", "r", "s", "t", "u", "v", "w", "x", "y", "z">>
S_upper == <<"A", "B", "C", "D", "E", "F", "G", "H", "I", "J", "K", "L", "M",
             "N", "O", "P", "Q", "R", "S", "T", "U", "V", "W", "X", "Y", "Z">>

to_lowercase(s) ==
    [i \in 1..Len(s) |->
        IF s[i] \in Uppers THEN S_lower[CHOOSE k \in 1..26 : S_upper[k] = s[i]] ELSE s[i]]

\* the cell_text built by the loops over a cell's runs, before the trim
RECURSIVE cell_text(_, _)
cell_text(texts, acc) ==
    IF texts = <<>> THEN acc
    ELSE cell_text(Tail(texts),
                   (IF ~is_empty(acc) /\ ~ends_with(acc, <<" ">>) THEN acc \o <<" ">> ELSE acc)
                      \o Head(texts))

HeaderWords ==
    {<<"n", "a", "m", "e">>, <<"d", "a", "t", "e">>, <<"a", "m", "o", "u", "n", "t">>,
     <<"t", "y", "p", "e">>, <<"s", "t", "a", "t", "u", "s">>, <<"i", "d">>,
     <<"d", "e", "s", "c", "r", "i", "p", "t", "i", "o", "n">>, <<"c", "o", "u", "n", "t">>}

RECURSIVE sum_len(_)
sum_len(row) == IF row = <<>> THEN 0 ELSE len(Head(row)) + sum_len(Tail(row))

appears_to_be_header(row) ==
    LET avg_length == IF row # <<>> THEN sum_len(row) \div Len(row) ELSE 0
        header_indicators ==
            Cardinality({i \in 1..Len(row) :
                \/ split_whitespace_count(row[i]) <= 3 /\ ~is_empty(trim(row[i]))
                \/ \E w \in HeaderWords : contains(to_lowercase(row[i]), w)})
    IN IF avg_length > 50 THEN FALSE ELSE header_indicators > Len(row) \div 2

\* the index of the first character from i on that is not a digit
RECURSIVE digits_end(_, _)
digits_end(s, i) ==
    IF i <= Len(s) /\ s[i] \in Digits THEN digits_end(s, i + 1) ELSE i

\* str::parse::<f64>().is_ok(): Sign? ('inf' | 'infinity' | 'nan' | Number),
\* Number ::= (Digit+ | Digit+ '.' Digit* | Digit* '.' Digit+) Exp?,
\* Exp ::= 'e' Sign? Digit+, letters in either case
parse_f64_is_ok(s) ==
    LET b  == IF s # <<>> /\ s[1] \in {"+", "-"} THEN Tail(s) ELSE s
        i1 == digits_end(b, 1)
        i2 == IF i1 <= Len(b) /\ b[i1] = "." THEN digits_end(b, i1 + 1) ELSE i1
        mantissa_digits == (i1 - 1) + (IF i2 > i1 THEN i2 - i1 - 1 ELSE 0)
        i3 == IF i2 + 1 <= Len(b) /\ b[i2 + 1] \in {"+", "-"} THEN i2 + 2 ELSE i2 + 1
    IN \/ to_lowercase(b) \in {<<"i", "n", "f">>, <<"n", "a", "n">>,
                               <<"i", "n", "f", "i", "n", "i", "t", "y">>}
       \/ /\ mantissa_digits >= 1
          /\ \/ i2 = Len(b) + 1
             \/ /\ b[i2] \in {"e", "E"}
                /\ i3 <= Len(b)
                /\ digits_end(b, i3) = Len(b) + 1

\* whether the digit string a is at most the digit string b of the same length
RECURSIVE digits_le(_, _)
digits_le(a, b) ==
    IF a = <<>> THEN TRUE
    ELSE IF to_digit(Head(a)) # to_digit(Head(b)) THEN to_digit(Head(a)) < to_digit(Head(b))
    ELSE digits_le(Tail(a), Tail(b))

RECURSIVE strip_zeros(_)
strip_zeros(s) == IF s # <<>> /\ Head(s) = "0" THEN strip_zeros(Tail(s)) ELSE s

\* str::parse::<u32>().is_ok(): an optional '+', digits, the value below 2^32
parse_u32_is_ok(s) ==
    LET b == IF s # <<>> /\ s[1] = "+" THEN Tail(s) ELSE s
        v == strip_zeros(b)
    IN /\ b # <<>>
       /\ digits_end(b, 1) = Len(b) + 1
       /\ \/ Len(v) < 10
          \/ Len(v) = 10 /\ digits_le(v, <<"4", "2", "9", "4", "9", "6", "7", "2", "9", "5">>)

\* trimmed.split(['/', '-'])
RECURSIVE split_date(_)
split_date(s) ==
    IF \E i \in 1..Len(s) : s[i] \in {"/", "-"}
    THEN LET k == CHOOSE i \in 1..Len(s) :
                     s[i] \in {"/", "-"} /\ \A j \in 1..(i - 1) : s[j] \notin {"/", "-"}
         IN <<SubSeq(s, 1, k - 1)>> \o split_date(From(s, k + 1))
    ELSE <<s>>

\* the rule order with Percentage tried before Currency
detect_cell_data_type_percent_first(content) ==
    LET trimmed == trim(content) IN
    IF is_empty(trimmed) THEN "Empty"
    ELSE IF ends_with(trimmed, <<"%">>) THEN "Percentage"
    ELSE IF trimmed[1] \in {"$", EURO, POUND} THEN "Currency"
    ELSE "Text"

detect_cell_data_type(content) ==
    LET trimmed == trim(content)
        lower   == to_lowercase(trimmed)
        number_candidate == SelectSeq(trimmed, LAMBDA c : c # ",")
        parts   == split_date(trimmed)
    IN IF is_empty(trimmed) THEN "Empty"
       ELSE IF trimmed[1] \in {"$", EURO, POUND} THEN "Currency"
       ELSE IF ends_with(trimmed, <<"%">>) THEN "Percentage"
       ELSE IF lower \in {<<"t", "r", "u", "e">>, <<"f", "a", "l", "s", "e">>,
                          <<"y", "e", "s">>, <<"n", "o">>, <<"y">>, <<"n">>}
       THEN "Boolean"
       ELSE IF parse_f64_is_ok(number_candidate) THEN "Number"
       ELSE IF /\ Len(parts) = 3
               /\ \A i \in 1..Len(parts) : parse_u32_is_ok(parts[i])
       THEN "Date"
       ELSE "Text"

default_alignment_for_type(data_type) ==
    IF data_type \in {"Number", "Currency", "Percentage"} THEN "Right"
    ELSE IF data_type = "Boolean" THEN "Center"
    ELSE "Left"

TableCell_new(content) ==
    [content   |-> content,
     alignment |-> default_alignment_for_type(detect_cell_data_type(content)),
     data_type |-> detect_cell_data_type(content)]

\* the number of grapheme clusters of the content
display_width(cell) ==
    Len(SelectSeq(cell.content, LAMBDA c : c # COMBINING_ACUTE))

Max(a, b) == IF a >= b THEN a ELSE b

\* the widest cell of column i among the rows, at least w
RECURSIVE column_width(_, _, _)
column_width(rows, i, w) ==
    IF rows = <<>> THEN w
    ELSE column_width(Tail(rows), i,
             IF i <= Len(Head(rows)) THEN Max(w, display_width(Head(rows)[i])) ELSE w)

\* the widths counted in bytes
calculate_column_widths_bytes(headers, rows) ==
    [i \in 1..Len(headers) |-> Max(len(headers[i].content), 3)]

calculate_column_widths(headers, rows) ==
    IF headers = <<>> THEN <<>>
    ELSE [i \in 1..Len(headers) |->
             Max(column_width(rows, i, display_width(headers[i])), 3)]

\* the alignments with the threshold reached at 70%
determine_column_alignments_at_least(headers, rows) ==
    [col_index \in 1..Len(headers) |->
        LET cells == {r \in 1..Len(rows) : col_index <= Len(rows[r])}
            numeric == {r \in cells : rows[r][col_index].data_type
                                         \in {"Number", "Currency", "Percentage"}}
        IN IF Cardinality(cells) > 0 /\ 10 * Cardinality(numeric) >= 7 * Cardinality(cells)
           THEN "Right" ELSE "Left"]

\* `numeric_count as f32 / total_count as f32 > 0.7`: the f32 nearest to 0.7
\* is below 0.7 and is the quotient of 7k by 10k, so the test is
\* 10 * numeric_count > 7 * total_count
determine_column_alignments(headers, rows) ==
    [col_index \in 1..Len(headers) |->
        LET total_count   == Cardinality({r \in 1..Len(rows) : col_index <= Len(rows[r])})
            numeric_count == Cardinality({r \in 1..Len(rows) :
                                 /\ col_index <= Len(rows[r])
                                 /\ rows[r][col_index].data_type
                                       \in {"Number", "Currency", "Percentage"}})
        IN IF total_count > 0 /\ 10 * numeric_count > 7 * total_count
           THEN "Right" ELSE "Left"]

TableData_new(headers, rows) ==
    [headers  |-> headers,
     rows     |-> rows,
     metadata |-> [column_count      |-> Len(headers),
                   row_count         |-> Len(rows),
                   has_headers       |-> headers # <<>>,
                   column_widths     |-> calculate_column_widths(headers, rows),
                   column_alignments |-> determine_column_alignments(headers, rows)]]

\* the first pass of extract_table_data: [header_cells, data_rows, is_first_row]
RECURSIVE table_rows_loop(_, _)
table_rows_loop(rows, st) ==
    IF rows = <<>> THEN st
    ELSE LET row_cells == [i \in 1..Len(Head(rows)) |->
                              TableCell_new(trim(cell_text(Head(rows)[i], <<>>)))]
             raw_text  == [i \in 1..Len(row_cells) |-> row_cells[i].content]
         IN table_rows_loop(Tail(rows),
                IF row_cells = <<>> THEN st
                ELSE IF st.is_first_row /\ appears_to_be_header(raw_text)
                THEN [st EXCEPT !.header_cells = row_cells, !.is_first_row = FALSE]
                ELSE [st EXCEPT !.data_rows = Append(@, row_cells), !.is_first_row = FALSE])

\* "Return table only if it has content"
table_or_none(header_cells, data_rows) ==
    IF header_cells # <<>> \/ data_rows # <<>>
    THEN Some(TableData_new(header_cells, data_rows))
    ELSE None

\* the table dropped when it has no data rows
finish_table_needs_rows(st) ==
    IF st.header_cells # <<>> /\ st.data_rows # <<>>
    THEN table_or_none(st.header_cells, st.data_rows)
    ELSE None

\* the table without the promotion of the first data row
finish_table_no_promotion(st) == table_or_none(st.header_cells, st.data_rows)

\* "If no headers were detected, use the first row as headers", and the return
finish_table(st) ==
    table_or_none(IF st.header_cells = <<>> /\ st.data_rows # <<>>
                  THEN Head(st.data_rows) ELSE st.header_cells,
                  IF st.header_cells = <<>> /\ st.data_rows # <<>>
                  THEN Tail(st.data_rows) ELSE st.data_rows)

\* None, or the TableData
extract_table_data(table) ==
    finish_table(table_rows_loop(table.rows,
                     [header_cells |-> <<>>, data_rows |-> <<>>, is_first_row |-> TRUE]))

\* ------------------------------------------------------- group_list_items
\* Elements are records tagged by `kind`; `src` is history, the position in
\* `children` of the block the element (or list item) was made from.
ListElement(items, ordered) == [kind |-> "List", items |-> items, ordered |-> ordered]

\* result.push(List { items: take(&mut current_list_items), .. }) when the
\* accumulator is not empty
flush(st) ==
    IF st.current_list_items # <<>>
    THEN [st EXCEPT !.result = Append(@, ListElement(st.current_list_items,
                                                     st.current_list_ordered)),
                    !.current_list_items = <<>>]
    ELSE st

\* the loop body with the switch of list type ignored
group_step_no_switch(st, element) ==
    IF element.kind = "Paragraph" /\ is_likely_list_item(element.text)
    THEN [st EXCEPT
            !.current_list_ordered = trim(element.text) # <<>> /\ is_numeric(trim(element.text)[1]),
            !.current_list_items =
                Append(@, [text  |-> clean_list_item_text(element.text),
                           level |-> calculate_list_level(element.text),
                           src   |-> element.src])]
    ELSE [flush(st) EXCEPT !.result = Append(@, element)]

\* the loop body pushing the element before the list that was open
group_step_element_first(st, element) ==
    IF element.kind = "Paragraph" /\ is_likely_list_item(element.text)
    THEN group_step_no_switch(
             IF /\ st.current_list_items # <<>>
                /\ (trim(element.text) # <<>> /\ is_numeric(trim(element.text)[1]))
                      # st.current_list_ordered
             THEN flush(st) ELSE st, element)
    ELSE flush([st EXCEPT !.result = Append(@, element)])

\* the body of `for element in elements`
group_step(st, element) ==
    IF element.kind = "Paragraph" /\ is_likely_list_item(element.text)
    THEN LET is_ordered == trim(element.text) # <<>> /\ is_numeric(trim(element.text)[1])
             st1 == IF st.current_list_items # <<>> /\ is_ordered # st.current_list_ordered
                    THEN flush(st) ELSE st
         IN [st1 EXCEPT
                !.current_list_ordered = is_ordered,
                !.current_list_items =
                    Append(@, [text  |-> clean_list_item_text(element.text),
                               level |-> calculate_list_level(element.text),
                               src   |-> element.src])]
    ELSE [flush(st) EXCEPT !.result = Append(@, element)]

RECURSIVE group_loop(_, _)
group_loop(st, es) ==
    IF es = <<>> THEN st ELSE group_loop(group_step(st, Head(es)), Tail(es))

\* the loop state when the loop ends, with the list still open dropped
group_end_no_flush(st) == st

\* "Don't forget the last list if the document ends with one"
group_end(st) == flush(st)

group_list_items(es) ==
    group_end(group_loop([result |-> <<>>, current_list_items |-> <<>>,
                          current_list_ordered |-> FALSE], es)).result

\* ------------------------------------------------ clean_word_list_markers
strip_word_list(text) ==
    IF starts_with(text, S_WORD_LIST) THEN From(text, Len(S_WORD_LIST) + 1) ELSE text

clean_word_list_markers(es) ==
    [i \in 1..Len(es) |->
        CASE es[i].kind = "Paragraph" -> [es[i] EXCEPT !.text = strip_word_list(@)]
          [] es[i].kind = "List" ->
                [es[i] EXCEPT !.items =
                    [j \in 1..Len(@) |-> [@[j] EXCEPT !.text = strip_word_list(@)]]]
          [] OTHER -> es[i]]

estimate_page_count(n) == (n + 249) \div 250

\* ------------------------------------------------------------------- Init
InitLoad ==
    /\ children = <<>>
    /\ elements = <<>>
    /\ word_count = 0
    /\ pc = "load"
    /\ document = None

InitGroup ==
    /\ grouped = <<>>

InitTrack ==
    /\ heading_tracker = HeadingNumberTracker_new
    /\ tracker_log = <<>>

InitEx ==
    /\ ex_text = <<>>
    /\ ex_out = None

\* ----------------------------------------------------------- load_document
repeat(s, n) ==
    IF n = 0 THEN <<>> ELSE [i \in 1..(n * Len(s)) |-> s[((i - 1) % Len(s)) + 1]]

\* the text pushed without the tag
word_list_text_untagged(list_info, text) ==
    repeat(<<" ", " ">>, list_info.level)
      \o (IF list_info.is_ordered THEN <<"1", ".", " ">> ELSE <<"*", " ">>)
      \o trim(text)

\* the text pushed for a paragraph with numbering properties: the tag, the
\* indent, the marker of the level and the trimmed text. (`level + 1` is u8
\* arithmetic: it overflows at level 255.)
word_list_text(list_info, text) ==
    S_WORD_LIST
      \o repeat(<<" ", " ">>, list_info.level)
      \o (IF list_info.is_ordered
          THEN CASE list_info.level = 0 -> <<"1", ".", " ">>
                 [] list_info.level = 1 -> <<"a", ")", " ">>
                 [] list_info.level = 2 -> <<"i", ".", " ">>
                 [] list_info.level = 3 -> <<"A", ".", " ">>
                 [] list_info.level = 4 -> <<"I", ".", " ">>
                 [] OTHER -> to_string(as_u8(list_info.level + 1)) \o <<".", " ">>
          ELSE <<"*", " ">>)
      \o trim(text)

\* `format!("{}. ", list_info.level + 1)` is evaluated for an ordered item
\* of a level above 4; the u8 addition overflows at level 255
prefix_overflows(list_info) == list_info.is_ordered /\ list_info.level = 255

\* a heading whose HeadingInfo has no number never asks the tracker
heading_number_explicit_only(heading_info, counters) == heading_info.number

\* `let number = if heading_info.number.is_some() { .. } else { get_number }`
heading_number(heading_info, counters) ==
    IF heading_info.number # None THEN heading_info.number
    ELSE Some(get_number(counters, heading_info.level))

\* the element pushed if the heading style were looked at before the
\* numbering properties
paragraph_element_style_first(para, counters, src) ==
    LET text         == runs_text(para.children)
        formatting   == runs_formatting(para.children, TextFormatting_default)
        heading_info == detect_heading_with_numbering(para)
        list_info    == detect_list_from_paragraph_numbering(para)
    IN IF is_empty(trim(text)) THEN None
       ELSE IF heading_info # None
       THEN Some([kind   |-> "Heading",
                  level  |-> Unwrap(heading_info).level,
                  text   |-> IF Unwrap(heading_info).clean_text # None
                             THEN Unwrap(Unwrap(heading_info).clean_text) ELSE text,
                  number |-> heading_number(Unwrap(heading_info), counters),
                  src    |-> src])
       ELSE IF list_info # None
       THEN Some([kind |-> "Paragraph", text |-> word_list_text(Unwrap(list_info), text),
                  formatting |-> formatting, src |-> src])
       ELSE Some([kind |-> "Paragraph", text |-> text, formatting |-> formatting,
                  src |-> src])

\* the element pushed for a paragraph with non-blank text, None when the
\* paragraph is dropped
paragraph_element(para, counters, src) ==
    LET text         == runs_text(para.children)
        formatting   == runs_formatting(para.children, TextFormatting_default)
        heading_info == detect_heading_with_numbering(para)
        list_info    == detect_list_from_paragraph_numbering(para)
    IN IF is_empty(trim(text)) THEN None
       ELSE IF list_info # None
       THEN Some([kind |-> "Paragraph", text |-> word_list_text(Unwrap(list_info), text),
                  formatting |-> formatting, src |-> src])
       ELSE IF heading_info # None
       THEN Some([kind   |-> "Heading",
                  level  |-> Unwrap(heading_info).level,
                  text   |-> IF Unwrap(heading_info).clean_text # None
                             THEN Unwrap(Unwrap(heading_info).clean_text) ELSE text,
                  number |-> heading_number(Unwrap(heading_info), counters),
                  src    |-> src])
       ELSE IF detect_heading_from_text(text, formatting) # None
       THEN Some([kind   |-> "Heading",
                  level  |-> Unwrap(detect_heading_from_text(text, formatting)),
                  text   |-> text, number |-> None, src |-> src])
       ELSE Some([kind |-> "Paragraph", text |-> text, formatting |-> formatting,
                  src |-> src])

\* the outcomes of the paragraph branch of the loop: the element pushed, or,
\* where `level + 1` overflows, a panic (overflow checks on, the debug
\* profile) or the element with the wrapped number (overflow checks off)
load_paragraph_outcomes(para, counters, src) ==
    {Some(paragraph_element(para, counters, src))}
      \cup (IF /\ ~is_empty(trim(runs_text(para.children)))
               /\ detect_list_from_paragraph_numbering(para) # None
               /\ prefix_overflows(Unwrap(detect_list_from_paragraph_numbering(para)))
            THEN {Panic} ELSE {})

\* the word count that skips the paragraph
add_word_count_none(word_count_, text) == word_count_

\* `word_count += text.split_whitespace().count()`
add_word_count(word_count_, text) == word_count_ + split_whitespace_count(text)

\* whether the paragraph reaches heading_tracker.get_number
calls_get_number(para) ==
    /\ ~is_empty(trim(runs_text(para.children)))
    /\ detect_list_from_paragraph_numbering(para) = None
    /\ detect_heading_with_numbering(para) # None
    /\ Unwrap(detect_heading_with_numbering(para)).number = None

\* ------------------------------------------------------------ the inputs
TextChild(text) == [kind |-> "Text", text |-> text]

Run(run_children, bold) ==
    [kind |-> "Run",
     run  |-> [children |-> run_children, bold |-> bold, italic |-> FALSE,
               underline |-> FALSE, color |-> None]]

Para(style, numbering_property, para_children) ==
    [kind |-> "Paragraph", style |-> style, numbering_property |-> numbering_property,
     children |-> para_children]

Plain(text) == Para(None, None, <<Run(<<TextChild(text)>>, FALSE)>>)
Bold(text)  == Para(None, None, <<Run(<<TextChild(text)>>, TRUE)>>)
Styled(style, text) == Para(Some(style), None, <<Run(<<TextChild(text)>>, FALSE)>>)
NumPr(id, level)    == Some([id |-> Some(id), level |-> Some(level)])

S_First_item  == <<"F", "i", "r", "s", "t", " ", "i", "t", "e", "m">>
S_Second_item == <<"S", "e", "c", "o", "n", "d", " ", "i", "t", "e", "m">>
S_Third_item  == <<"T", "h", "i", "r", "d", " ", "i", "t", "e", "m">>
S_numbered_item ==
    <<"n", "u", "m", "b", "e", "r", "e", "d", " ", "i", "t", "e", "m", " ", "i", "n", " ",
      "a", " ", "l", "i", "s", "t">>
S_Name == <<"N", "a", "m", "e">>
S_Age  == <<"A", "g", "e">>
S_Ann  == <<"A", "n", "n">>

P_FirstBullet   == Plain(<<BULLET, " ">> \o S_First_item)
P_SecondBullet  == Plain(<<BULLET, " ">> \o S_Second_item)
P_ThirdNumbered == Plain(<<"1", ".", " ">> \o S_Third_item)
P_LongNumbered  == Plain(<<"2", ".", " ">> \o S_numbered_item)
P_Blank         == Plain(<<" ", " ">>)
P_Heading1      == Styled(S_Heading \o <<"1">>, S_Introduction)
P_Heading2      == Styled(S_heading \o <<"2">>, S_Overview)
P_Heading0      == Styled(S_Heading \o <<"0">>, S_Overview)
P_HeadingManual == Styled(S_Heading \o <<"2">>, <<"1", ".", "1", " ">> \o S_Project_Overview)
P_HeadingNumPr  ==
    Para(Some(S_Heading \o <<"1">>), NumPr(2, 0),
         <<Run(<<TextChild(S_Overview)>>, FALSE)>>)
P_ListNumPr     ==
    Para(None, NumPr(1, 1), <<Run(<<TextChild(S_Overview)>>, FALSE)>>)
P_BoldShort     == Bold(S_Project_Overview)
P_DoubleTag     == Plain(S_WORD_LIST \o S_WORD_LIST \o <<"i", "t", "e", "m">>)
P_TagOnly       == Plain(S_WORD_LIST)

Paragraphs ==
    {P_FirstBullet, P_SecondBullet, P_ThirdNumbered, P_LongNumbered, P_Blank,
     P_Heading1, P_Heading2, P_Heading0, P_HeadingManual, P_HeadingNumPr,
     P_ListNumPr, P_BoldShort, P_DoubleTag, P_TagOnly}

Tables ==
    {[kind |-> "Table", rows |-> << << <<S_Name>>, <<S_Age>> >>, << <<S_Ann>>, <<"2", "5">> >> >>],
     [kind |-> "Table", rows |-> <<>>]}

\* ------------------------------------------------------------ the actions
\* one iteration of `for child in &docx.document.children`, a paragraph
LoadParagraph ==
    /\ pc = "load"
    /\ Len(children) < MaxBlocks
    /\ \E para \in Paragraphs :
         LET src     == Len(children) + 1
             element == paragraph_element(para, heading_tracker, src)
         IN /\ children' = Append(children, para)
            /\ elements' = IF element = None THEN elements
                           ELSE Append(elements, Unwrap(element))
            /\ word_count' = IF element = None THEN word_count
                             ELSE add_word_count(word_count, runs_text(para.children))
            /\ IF calls_get_number(para)
               THEN TrackerCall(Unwrap(detect_heading_with_numbering(para)).level, src)
               ELSE UNCHANGED trackVars
    /\ UNCHANGED <<pc, document, groupVars, exVars>>

\* one iteration, a table
LoadTable ==
    /\ pc = "load"
    /\ Len(children) < MaxBlocks
    /\ \E table \in Tables :
         /\ children' = Append(children, table)
         /\ \E table_element \in {extract_table_data(table)} :
               elements' = IF table_element = None THEN elements
                           ELSE Append(elements, [kind  |-> "Table",
                                                  table |-> Unwrap(table_element),
                                                  src   |-> Len(children) + 1])
    /\ UNCHANGED <<word_count, pc, document, trackVars, groupVars, exVars>>

\* one iteration, any other DocumentChild
LoadOther ==
    /\ pc = "load"
    /\ Len(children) < MaxBlocks
    /\ children' = Append(children, [kind |-> "Other"])
    /\ UNCHANGED <<elements, word_count, pc, document, trackVars, groupVars, exVars>>

\* the loop has ended: `let elements = group_list_items(elements)`
GroupListItems ==
    /\ pc = "load"
    /\ grouped' = group_list_items(elements)
    /\ pc' = "clean"
    /\ UNCHANGED <<children, elements, word_count, document, trackVars, exVars>>

\* `let elements = clean_word_list_markers(elements)`, and the Document built
CleanWordListMarkers ==
    /\ pc = "clean"
    /\ document' = Some([elements |-> clean_word_list_markers(grouped),
                         metadata |-> [word_count |-> word_count,
                                       page_count |-> estimate_page_count(word_count)]])
    /\ pc' = "done"
    /\ UNCHANGED <<children, elements, word_count, grouped, trackVars, exVars>>

Init == InitLoad /\ InitGroup /\ InitTrack /\ InitEx
Next == LoadParagraph \/ LoadTable \/ LoadOther \/ GroupListItems \/ CleanWordListMarkers
Spec == Init /\ [][Next]_vars

\* ------------------------------------------ two conversions in flight
\* the locals of one load_document call
Conversion_new ==
    [children |-> <<>>, elements |-> <<>>, word_count |-> 0,
     heading_tracker |-> HeadingNumberTracker_new,
     pc |-> "load", grouped |-> <<>>, document |-> None]

\* one iteration of the loop on the locals of a call
load_child(conv, child) ==
    IF child.kind = "Paragraph"
    THEN [conv EXCEPT
            !.children = Append(@, child),
            !.elements = IF paragraph_element(child, conv.heading_tracker,
                                              Len(conv.children) + 1) = None THEN @
                         ELSE Append(@, Unwrap(paragraph_element(child, conv.heading_tracker,
                                                                 Len(conv.children) + 1))),
            !.word_count = IF is_empty(trim(runs_text(child.children))) THEN @
                           ELSE add_word_count(@, runs_text(child.children)),
            !.heading_tracker =
                IF calls_get_number(child)
                THEN get_number_counters(@, Unwrap(detect_heading_with_numbering(child)).level)
                ELSE @]
    ELSE IF child.kind = "Table"
    THEN [conv EXCEPT
            !.children = Append(@, child),
            !.elements = IF extract_table_data(child) = None THEN @
                         ELSE Append(@, [kind  |-> "Table",
                                         table |-> Unwrap(extract_table_data(child)),
                                         src   |-> Len(conv.children) + 1])]
    ELSE [conv EXCEPT !.children = Append(@, child)]

\* the whole loop, one call on its own
RECURSIVE load_loop(_, _)
load_loop(conv, rest) ==
    IF rest = <<>> THEN conv ELSE load_loop(load_child(conv, Head(rest)), Tail(rest))

\* the Document built from the locals when the loop has ended
build_document(elements_, word_count_) ==
    Some([elements |-> elements_,
          metadata |-> [word_count |-> word_count_,
                        page_count |-> estimate_page_count(word_count_)]])

\* load_document on the decoded children, one call on its own
load_document(docx_children) ==
    LET conv == load_loop(Conversion_new, docx_children)
    IN build_document(clean_word_list_markers(group_list_items(conv.elements)),
                      conv.word_count)

\* the counters every call would read if the tracker were one shared object
conversion_tracker_shared(conversions, c) == conversions[1].heading_tracker

\* the counters call c reads: its own `let mut heading_tracker`
conversion_tracker(conversions, c) == conversions[c].heading_tracker

\* the blocks the two calls read
PairChildren == {P_Heading1, P_Heading2, P_FirstBullet}

\* the two calls are held in ex_text
InitPair ==
    /\ InitLoad /\ InitGroup /\ InitTrack
    /\ ex_text = <<Conversion_new, Conversion_new>>
    /\ ex_out = None

\* call c runs one iteration of its loop
PairLoad ==
    \E c \in 1..2 : \E child \in PairChildren :
        /\ ex_text[c].pc = "load"
        /\ Len(ex_text[c].children) < MaxPairBlocks
        /\ ex_text' = [ex_text EXCEPT
                          ![c] = load_child([@ EXCEPT !.heading_tracker =
                                                conversion_tracker(ex_text, c)], child)]
        /\ UNCHANGED <<ex_out, loadVars, groupVars, trackVars>>

\* call c leaves the loop and groups its elements
PairGroup ==
    \E c \in 1..2 :
        /\ ex_text[c].pc = "load"
        /\ ex_text' = [ex_text EXCEPT ![c].grouped = group_list_items(ex_text[c].elements),
                                      ![c].pc = "clean"]
        /\ UNCHANGED <<ex_out, loadVars, groupVars, trackVars>>

\* call c cleans the markers and returns its Document
PairClean ==
    \E c \in 1..2 :
        /\ ex_text[c].pc = "clean"
        /\ ex_text' = [ex_text EXCEPT
                          ![c].document = build_document(
                               clean_word_list_markers(ex_text[c].grouped),
                               ex_text[c].word_count),
                          ![c].pc = "done"]
        /\ UNCHANGED <<ex_out, loadVars, groupVars, trackVars>>

NextPair == PairLoad \/ PairGroup \/ PairClean
SpecPair == InitPair /\ [][NextPair]_vars

\* ------------------------------- the viewer: one search result, rendered
\* `let max_bytes = 77`
max_bytes == 77

\* str::is_char_boundary: the start, the end, or the end of a character
is_char_boundary(s, index) ==
    index = 0 \/ \E k \in 1..Len(s) : len(SubSeq(s, 1, k)) = index

\* `while boundary > 0 && !text.is_char_boundary(boundary) { boundary -= 1 }`
RECURSIVE boundary_loop(_, _)
boundary_loop(s, boundary) ==
    IF boundary > 0 /\ ~is_char_boundary(s, boundary)
    THEN boundary_loop(s, boundary - 1) ELSE boundary

safe_boundary(s) == IF len(s) <= max_bytes THEN len(s) ELSE boundary_loop(s, max_bytes)

\* `&text[..index]`: the characters that end at byte index, a panic when
\* index is inside a character
slice_to(s, index) ==
    IF is_char_boundary(s, index)
    THEN Some(SubSeq(s, 1, CHOOSE k \in 0..Len(s) : len(SubSeq(s, 1, k)) = index))
    ELSE Panic

\* display_text of render_search
display_text(s) ==
    IF len(s) > 80
    THEN IF slice_to(s, safe_boundary(s)) = Panic THEN Panic
         ELSE Some(Unwrap(slice_to(s, safe_boundary(s))) \o <<".", ".", ".">>)
    ELSE Some(s)

\* result texts: ASCII bytes, then nothing, a 3-byte or a 2-byte character
\* or a letter with a combining accent, then ten more ASCII bytes
SearchTexts ==
    {repeat(<<"a">>, n) \o mid \o repeat(<<"b">>, 10) :
        n \in 60..MaxLeadBytes,
        mid \in {<<>>, <<EURO>>, <<POUND>>, <<"e", COMBINING_ACUTE>>, <<EURO, COMBINING_ACUTE>>}}

InitRender ==
    /\ InitLoad /\ InitGroup /\ InitTrack
    /\ ex_text \in SearchTexts
    /\ ex_out = None

RenderSearch ==
    /\ ex_out = None
    /\ ex_out' = display_text(ex_text)
    /\ UNCHANGED <<ex_text, loadVars, groupVars, trackVars>>

SpecRender == InitRender /\ [][RenderSearch]_vars

\* --------------------------------------------- the viewer: App and run_app
\* the texts search_document looks at in one element, in order
RECURSIVE concat(_)
concat(seqs) == IF seqs = <<>> THEN <<>> ELSE Head(seqs) \o concat(Tail(seqs))

searched_texts(element) ==
    CASE element.kind \in {"Heading", "Paragraph"} -> <<element.text>>
      [] element.kind = "List"  -> [i \in 1..Len(element.items) |-> element.items[i].text]
      [] element.kind = "Table" ->
            [i \in 1..Len(element.table.headers) |-> element.table.headers[i].content]
              \o concat([r \in 1..Len(element.table.rows) |->
                           [i \in 1..Len(element.table.rows[r]) |->
                               element.table.rows[r][i].content]])
      [] element.kind = "Image" -> <<element.description>>
      [] OTHER -> <<>>

\* the results of element i (1-based; element_index is 0-based) and after
RECURSIVE search_from(_, _, _)
search_from(elements_, i, query) ==
    IF i > Len(elements_) THEN <<>>
    ELSE [k \in 1..Len(SelectSeq(searched_texts(elements_[i]),
                                 LAMBDA t : contains(to_lowercase(t), to_lowercase(query)))) |->
            [element_index |-> i - 1,
             text |-> SelectSeq(searched_texts(elements_[i]),
                                LAMBDA t : contains(to_lowercase(t), to_lowercase(query)))[k]]]
         \o search_from(elements_, i + 1, query)

search_document(elements_, query) == search_from(elements_, 1, query)

\* the element_index of every heading, in order
RECURSIVE generate_outline_from(_, _)
generate_outline_from(elements_, i) ==
    IF i > Len(elements_) THEN <<>>
    ELSE (IF elements_[i].kind = "Heading" THEN <<[element_index |-> i - 1]>> ELSE <<>>)
           \o generate_outline_from(elements_, i + 1)

generate_outline(elements_) == generate_outline_from(elements_, 1)

\* usize::saturating_sub
saturating_sub(a, b) == IF a >= b THEN a - b ELSE 0

\* App::new; the clipboard, the status message, the colours and the images
\* take no part in the scroll and search state and are left out
App_new(elements_, cli) ==
    [document             |-> elements_,
     current_view         |-> IF cli.search # None THEN "Search"
                              ELSE IF cli.outline THEN "Outline" ELSE "Document",
     scroll_offset        |-> IF cli.page # None
                              THEN saturating_sub(Unwrap(cli.page), 1) * 10 ELSE 0,
     search_query         |-> IF cli.search # None THEN Unwrap(cli.search) ELSE <<>>,
     search_results       |-> IF cli.search # None
                              THEN search_document(elements_, Unwrap(cli.search)) ELSE <<>>,
     current_search_index |-> 0,
     outline_state        |-> None,
     show_help            |-> FALSE,
     running              |-> TRUE]

\* next_search_result that walks off the end
next_search_result_no_wrap(app) ==
    IF app.search_results # <<>>
    THEN [app EXCEPT !.current_search_index = app.current_search_index + 1,
                     !.scroll_offset = IF app.current_search_index + 1 < Len(app.search_results)
                                       THEN app.search_results[app.current_search_index + 2].element_index
                                       ELSE @]
    ELSE app

next_search_result(app) ==
    IF app.search_results # <<>>
    THEN [app EXCEPT
            !.current_search_index = (app.current_search_index + 1) % Len(app.search_results),
            !.scroll_offset =
                app.search_results[((app.current_search_index + 1) % Len(app.search_results)) + 1]
                    .element_index]
    ELSE app

prev_search_result(app) ==
    IF app.search_results # <<>>
    THEN [app EXCEPT
            !.current_search_index = IF app.current_search_index = 0
                                     THEN Len(app.search_results) - 1
                                     ELSE app.current_search_index - 1,
            !.scroll_offset =
                app.search_results[(IF app.current_search_index = 0
                                    THEN Len(app.search_results) - 1
                                    ELSE app.current_search_index - 1) + 1].element_index]
    ELSE app

scroll_up(app) == [app EXCEPT !.scroll_offset = saturating_sub(@, 1)]

scroll_down(app) ==
    IF app.scroll_offset + 1 < Len(app.document)
    THEN [app EXCEPT !.scroll_offset = @ + 1] ELSE app

page_up(app, page_size) == [app EXCEPT !.scroll_offset = saturating_sub(@, page_size)]

page_down(app, page_size) ==
    [app EXCEPT !.scroll_offset = Min(@ + page_size, saturating_sub(Len(app.document), 1))]

\* the outline selection one up or one down (keys and mouse wheel)
outline_up(app) ==
    IF (IF app.outline_state = None THEN 0 ELSE Unwrap(app.outline_state)) > 0
    THEN [app EXCEPT !.outline_state = Some(Unwrap(@) - 1)] ELSE app

outline_down(app) ==
    IF (IF app.outline_state = None THEN 0 ELSE Unwrap(app.outline_state)) + 1
         < Len(generate_outline(app.document))
    THEN [app EXCEPT !.outline_state =
                        Some((IF @ = None THEN 0 ELSE Unwrap(@)) + 1)]
    ELSE app

\* the keys of the model: characters, and named keys
CharKeys == {"q", "o", "s", "h", "c", "k", "j", "n", "p"}
Keys == CharKeys \cup {"Up", "Down", "PageUp", "PageDown", "Home", "End", "Esc", "Enter",
                       "Backspace", "F1", "F2", "Tab"}

\* a new query: the results are searched again and the index is reset
set_query(app, query) ==
    [app EXCEPT !.search_query = query,
                !.search_results = search_document(app.document, query),
                !.current_search_index = 0]

\* `Event::Key(key)` of run_app, a key press
handle_key(app, key) ==
    CASE app.current_view = "Document" ->
           (CASE key = "q" -> [app EXCEPT !.running = FALSE]
              [] key = "o" -> [app EXCEPT !.current_view = "Outline"]
              [] key = "s" -> [app EXCEPT !.current_view = "Search"]
              [] key \in {"h", "F1"} -> [app EXCEPT !.show_help = ~@]
              [] key = "c" -> app
              [] key \in {"Up", "k"} -> scroll_up(app)
              [] key \in {"Down", "j"} -> scroll_down(app)
              [] key = "PageUp" -> page_up(app, 10)
              [] key = "PageDown" -> page_down(app, 10)
              [] key = "Home" -> [app EXCEPT !.scroll_offset = 0]
              [] key = "End" ->
                    [app EXCEPT !.scroll_offset = saturating_sub(Len(app.document), 1)]
              [] key = "n" /\ app.search_results # <<>> -> next_search_result(app)
              [] key = "p" /\ app.search_results # <<>> -> prev_search_result(app)
              [] OTHER -> app)
      [] app.current_view = "Outline" ->
           (CASE key \in {"q", "Esc"} -> [app EXCEPT !.current_view = "Document"]
              [] key = "c" -> app
              [] key \in {"Up", "k"} -> outline_up(app)
              [] key \in {"Down", "j"} -> outline_down(app)
              [] key = "Enter" ->
                    IF /\ app.outline_state # None
                       /\ Unwrap(app.outline_state) < Len(generate_outline(app.document))
                    THEN [app EXCEPT
                            !.scroll_offset =
                                generate_outline(app.document)[Unwrap(app.outline_state) + 1]
                                    .element_index,
                            !.current_view = "Document"]
                    ELSE app
              [] OTHER -> app)
      [] app.current_view = "Search" ->
           (CASE key \in {"q", "Esc"} -> [app EXCEPT !.current_view = "Document"]
              [] key = "F2" -> app
              [] key \in CharKeys \ {"q"} -> set_query(app, Append(app.search_query, key))
              [] key = "Backspace" ->
                    set_query(app, SubSeq(app.search_query, 1, Len(app.search_query) - 1))
              [] key \in {"Enter", "Down"} -> next_search_result(app)
              [] key = "Up" -> prev_search_result(app)
              [] OTHER -> app)
      [] OTHER -> app

\* `Event::Mouse(mouse)` of run_app, the wheel
handle_mouse(app, kind) ==
    CASE kind = "ScrollUp" ->
           (CASE app.current_view = "Document" -> scroll_up(scroll_up(scroll_up(app)))
              [] app.current_view = "Outline" -> outline_up(app)
              [] app.current_view = "Search" -> prev_search_result(app)
              [] OTHER -> app)
      [] kind = "ScrollDown" ->
           (CASE app.current_view = "Document" -> scroll_down(scroll_down(scroll_down(app)))
              [] app.current_view = "Outline" -> outline_down(app)
              [] app.current_view = "Search" -> next_search_result(app)
              [] OTHER -> app)
      [] OTHER -> app

\* the documents opened: none of an element, one of a heading, a paragraph,
\* a list and a heading, one of a paragraph and a table
ViewerDocuments ==
    {<<>>,
     <<[kind |-> "Heading", level |-> 1, text |-> <<"o", "n">>, number |-> None],
       [kind |-> "Paragraph", text |-> <<"N", "o">>],
       [kind |-> "List", ordered |-> FALSE,
        items |-> <<[text |-> <<"s", "o">>, level |-> 0], [text |-> <<"o", "n">>, level |-> 0]>>],
       [kind |-> "Heading", level |-> 2, text |-> <<"s", "h">>, number |-> None]>>,
     <<[kind |-> "Paragraph", text |-> <<"s", "o">>],
       [kind |-> "Table",
        table |-> [headers |-> <<[content |-> <<"n", "o">>]>>,
                   rows |-> << <<[content |-> <<"o", "h">>]>> >>]]>>}

\* the command lines: --outline, --search and --page
Clis ==
    [outline : BOOLEAN, search : {None, Some(<<"o">>)}, page : {None, Some(0), Some(1), Some(2)}]

\* the App is held in ex_text
InitViewer ==
    /\ InitLoad /\ InitGroup /\ InitTrack
    /\ ex_text \in {App_new(elements_, cli) : elements_ \in ViewerDocuments, cli \in Clis}
    /\ ex_out = None

KeyEvent ==
    /\ ex_text.running
    /\ \E key \in Keys :
          /\ ex_text.current_view = "Search" /\ key \in CharKeys \ {"q"}
                => Len(ex_text.search_query) < MaxQuery
          /\ ex_text' = handle_key(ex_text, key)
    /\ UNCHANGED <<ex_out, loadVars, groupVars, trackVars>>

MouseEvent ==
    /\ ex_text.running
    /\ \E kind \in {"ScrollUp", "ScrollDown", "Moved"} : ex_text' = handle_mouse(ex_text, kind)
    /\ UNCHANGED <<ex_out, loadVars, groupVars, trackVars>>

NextViewer == KeyEvent \/ MouseEvent
SpecViewer == InitViewer /\ [][NextViewer]_vars

\* --------------------------------- one indented text-pattern list item
\* a bullet item, a star item and a numbered item behind leading spaces: a
\* few, and as many as make the level pass the largest u8
LevelTexts ==
    {repeat(<<" ">>, n) \o item :
        n \in (0..MaxLeadSpaces) \cup (510..513),
        item \in {<<"-", " ">> \o S_First_item, <<"*", " ">> \o S_Second_item,
                  <<"1", ".", " ">> \o S_numbered_item}}

InitLevel ==
    /\ InitLoad /\ InitGroup /\ InitTrack
    /\ ex_text \in LevelTexts
    /\ ex_out = None

\* the paragraph is loaded and the elements are grouped
GroupParagraph ==
    /\ ex_out = None
    /\ ex_out' = Some(group_list_items(
                         load_loop(Conversion_new, <<Plain(ex_text)>>).elements))
    /\ UNCHANGED <<ex_text, loadVars, groupVars, trackVars>>

SpecLevel == InitLevel /\ [][GroupParagraph]_vars

\* ------------------------------------------ the tracker on its own
\* heading levels load_document can pass: the style digit after min(6)
HeadingLevels == 0..6

GetNumber ==
    /\ Len(tracker_log) < MaxHeadings
    /\ \E level \in HeadingLevels : TrackerCall(level, Len(tracker_log) + 1)
    /\ UNCHANGED <<loadVars, groupVars, exVars>>

InitTracker == InitLoad /\ InitGroup /\ InitTrack /\ InitEx
NextTracker == GetNumber
SpecTracker == InitTracker /\ [][NextTracker]_vars

\* ------------------------- extract_heading_number_from_text on its own

\* what a heading text may start with
ExtractPrefixes ==
    {<<>>, <<"1">>, <<"1", ".">>, <<"1", ".", "1">>, <<"2", ".", "1", ".", "1">>,
     <<"1", ".", ".">>, <<".", "1">>, <<"1", "2", ".">>, <<"1", "a">>,
     <<"A", ".">>, <<"I", ".">>, <<"I", "V", ".">>, <<"a", ".">>, <<"A", "B", ".">>,
     <<"I", "V">>, <<"A">>,
     S_Section, S_Section \o <<" ", "1", ".", "2">>, S_Section \o <<"1">>,
     S_Chapter \o <<" ", " ", "3">>, S_Part \o <<" ", "2", ".">>,
     S_Part \o <<"s", " ", "2">>, S_Part \o <<" ", "I", ".">>}

ExtractSeparators == {<<>>, <<" ">>, <<" ", " ">>, <<"\t">>, <<"\n">>}

ExtractBodies ==
    {<<>>, S_Introduction, S_Project_Overview, <<"x", " ">>,
     <<"a", "\n", "b">>, <<".", "x">>}

ExtractLeads == {<<>>, <<" ">>}

ExtractTexts ==
    {l \o p \o sp \o b :
        l \in ExtractLeads, p \in ExtractPrefixes,
        sp \in ExtractSeparators, b \in ExtractBodies}

InitExtract ==
    /\ InitLoad /\ InitGroup /\ InitTrack
    /\ ex_text \in ExtractTexts
    /\ ex_out = None

Extract ==
    /\ ex_out = None
    /\ ex_out' = Some(extract_heading_number_from_text(ex_text))
    /\ UNCHANGED <<loadVars, groupVars, trackVars, ex_text>>

NextExtract == Extract
SpecExtract == InitExtract /\ [][NextExtract]_vars

\* ================================================================== claims
\* the latest get_number call
LastCall == tracker_log[Len(tracker_log)]

\* the levels and the numbers of the get_number calls so far, in call order
LogLevels  == [k \in 1..Len(tracker_log) |-> tracker_log[k].level]
LogNumbers == [k \in 1..Len(tracker_log) |-> tracker_log[k].number]

\* a dotted number cut at its dots
RECURSIVE SplitDots(_)
SplitDots(s) ==
    IF find(s, ".") = 0 THEN <<s>>
    ELSE <<SubSeq(s, 1, find(s, ".") - 1)>> \o SplitDots(From(s, find(s, ".") + 1))

\* C1: auto-numbering step. The counters start at six zeros; a get_number call
\* at level L in 1..6 adds exactly 1 to counter[L], sets every deeper counter to
\* 0 and leaves every shallower counter as it was, each call starting from the
\* counters the previous call left; headings at levels 1,1,2,1 receive "1",
\* "2", "2.1", "3" and the level-2 counter is 0 after the last one.
C1_AutoNumberStep ==
    /\ \A k \in 1..Len(tracker_log) :
         LET e == tracker_log[k] IN
         /\ e.before = IF k = 1 THEN [i \in 1..6 |-> 0] ELSE tracker_log[k - 1].after
         /\ e.level \in 1..6 =>
              /\ e.after[e.level] = e.before[e.level] + 1
              /\ \A i \in 1..6 : i > e.level => e.after[i] = 0
              /\ \A i \in 1..6 : i < e.level => e.after[i] = e.before[i]
    /\ tracker_log # <<>> => heading_tracker = LastCall.after
    /\ LogLevels = <<1, 1, 2, 1>> =>
         /\ LogNumbers = << <<"1">>, <<"2">>, <<"2", ".", "1">>, <<"3">> >>
         /\ heading_tracker[2] = 0

C1_Witness ==
    /\ LogLevels = <<1, 1, 2, 1>>
    /\ LastCall.number = <<"3">>
    /\ tracker_log[3].after[2] = 1

\* C2: auto-number rendering. The number returned at level L is the dot-joined
\* decimal rendering, in level order, of exactly the counters of levels 1..L
\* that are nonzero after the step; it is never empty, has no "0" component,
\* and a shallower level whose counter is 0 is left out.
C2_NumberRendering ==
    \A k \in 1..Len(tracker_log) :
        LET e     == tracker_log[k]
            L     == e.level
            kept  == SelectSeq([i \in 1..L |-> e.after[i]], LAMBDA c : c # 0)
            comps == SplitDots(e.number)
        IN L \in 1..6 =>
             /\ e.number # <<>>
             /\ comps = [j \in 1..Len(kept) |-> to_string(kept[j])]
             /\ \A j \in 1..Len(comps) : comps[j] # <<"0">> /\ comps[j] # <<>>

C2_Witness ==
    /\ tracker_log # <<>>
    /\ LastCall.level = 3
    /\ LastCall.after[1] = 1 /\ LastCall.after[2] = 0 /\ LastCall.after[3] = 2
    /\ LastCall.number = <<"1", ".", "2">>

\* a prefix of one of the four manual numbering shapes
RECURSIVE IsDecimalShape(_)
IsDecimalShape(p) ==
    LET RECURSIVE LeadingDigits(_)
        LeadingDigits(q) ==
            IF q # <<>> /\ Head(q) \in Digits THEN 1 + LeadingDigits(Tail(q)) ELSE 0
        d == LeadingDigits(p)
    IN /\ d >= 1
       /\ \/ Len(p) = d
          \/ /\ p[d + 1] = "."
             /\ Len(p) = d + 1 \/ IsDecimalShape(From(p, d + 2))

IsManualPrefix(p) ==
    \/ IsDecimalShape(p)
    \/ \E kw \in {S_Section, S_Chapter, S_Part} : \E w \in 1..Len(p) :
          /\ starts_with(p, kw)
          /\ Len(kw) + w < Len(p)
          /\ \A i \in (Len(kw) + 1)..(Len(kw) + w) : p[i] \in Spaces
          /\ IsDecimalShape(From(p, Len(kw) + w + 1))
    \/ Len(p) = 2 /\ p[1] \in Uppers /\ p[2] = "."
    \/ /\ Len(p) >= 2
       /\ p[Len(p)] = "."
       /\ \A i \in 1..(Len(p) - 1) : p[i] \in {"I", "V", "X"}

\* t is: a manual numbering prefix t[1..j], whitespace t[j+1..k-1], and a rest
\* t[k..] on one line
SplitsAt(t, j, k) ==
    /\ 1 <= j /\ j + 1 < k /\ k <= Len(t)
    /\ IsManualPrefix(SubSeq(t, 1, j))
    /\ \A i \in (j + 1)..(k - 1) : t[i] \in Spaces
    /\ t[k] \notin Spaces
    /\ \A i \in k..Len(t) : t[i] # "\n"

WithoutTrailingDot(p) ==
    IF p # <<>> /\ p[Len(p)] = "." THEN SubSeq(p, 1, Len(p) - 1) ELSE p

\* C5: extract_heading_number_from_text. A text that matches one of the four
\* manual numbering patterns returns the matched prefix without its trailing
\* dot and the remainder trimmed, both non-empty; any other text returns None.
C5_ExtractHeadingNumber ==
    ex_out # None =>
        LET t   == trim(ex_text)
            out == Unwrap(ex_out)
        IN
        /\ (out # None) <=> (\E j, k \in 1..Len(t) : SplitsAt(t, j, k))
        /\ \A j, k \in 1..Len(t) :
              SplitsAt(t, j, k) =>
                 /\ Unwrap(out).number = WithoutTrailingDot(SubSeq(t, 1, j))
                 /\ Unwrap(out).text = trim(From(t, k))
                 /\ Unwrap(out).number # <<>>
                 /\ Unwrap(out).text # <<>>
        /\ ex_text = S_Introduction => out = None

C5_Witness ==
    /\ ex_text = <<" ">> \o S_Section \o <<" ", "1", ".", "2", " ", " ">> \o S_Project_Overview
    /\ ex_out = Some(Some([number |-> S_Section \o <<" ", "1", ".", "2">>,
                            text   |-> S_Project_Overview]))

\* ------------------------- the metadata list detector on its own
\* the levels of the numbering metadata: none, the levels of a list, and
\* two levels that do not fit a u8 unchanged or whose successor does not
TagLevels == {None} \cup {Some(l) : l \in 0..MaxListLevel} \cup {Some(255), Some(258)}

\* paragraphs with numbering metadata: no id, the mixed-list id 1 or another
\* id; no level or a level; with or without a heading style; four texts, one
\* of more than 20 bytes and one that starts with a manual heading number
TagParagraphs ==
    {Para(style, Some([id |-> id, level |-> level]), <<Run(<<TextChild(text)>>, FALSE)>>) :
        style \in {None, Some(S_Heading \o <<"1">>)},
        id \in {None, Some(1), Some(2)},
        level \in TagLevels,
        text \in {S_Overview, S_First_item, S_numbered_item,
                  <<"1", ".", "1", " ">> \o S_Project_Overview}}

InitTag ==
    /\ InitLoad /\ InitGroup /\ InitTrack
    /\ ex_text \in TagParagraphs
    /\ ex_out = None

\* the element load_document pushes for the paragraph, or the panic
TagParagraph ==
    /\ ex_out = None
    /\ ex_out' \in load_paragraph_outcomes(ex_text, HeadingNumberTracker_new, 1)
    /\ UNCHANGED <<ex_text, loadVars, groupVars, trackVars>>

SpecTag == InitTag /\ [][TagParagraph]_vars

\* ------------------------------------- extract_table_data on its own
\* a row whose cells hold one run each
Row(texts) == [i \in 1..Len(texts) |-> <<texts[i]>>]

\* rows: without cells; header-like; of typed cells; one and four cells wide;
\* two that fail the header test (a long phrase, a blank first cell)
TableRowInputs ==
    {<<>>,
     Row(<<S_Name, S_Age, <<"C", "i", "t", "y">> >>),
     Row(<<S_Ann, <<"2", "5">>, <<"$", "3", "0", ",", "0", "0", "0">> >>),
     Row(<<<<"R", "e", "n", "e", COMBINING_ACUTE>>, <<"3", "0">>,
           <<"$", "4", "5", ",", "0", "0", "0">> >>),
     Row(<<S_numbered_item>>),
     Row(<<<<"5", "0", "%">>, <<"y", "e", "s">>,
           <<"1", "2", "/", "3", "1", "/", "2", "0", "2", "4">> >>),
     Row(<<<<"$", "5", "%">>, <<"T", "r", "u", "e", "%">>,
           <<"1", "/", "2", "/", "4", "2", "9", "4", "9", "6", "7", "2", "9", "6">> >>),
     Row(<<<<"i", "n", "f">>, <<"1", ",", "2", "3", "4", ".", "5">>, <<"n", "/", "a">>,
           <<"-", "5">> >>),
     Row(<<<<EURO, "5">>, <<>>, <<"2", "0", "2", "4", "-", "0", "1", "-", "1", "5">> >>),
     Row(<<<<" ">>, <<"1", "e", "3">> >>)}

RECURSIVE TablesOfRows(_)
TablesOfRows(n) ==
    IF n = 0 THEN {<<>>}
    ELSE TablesOfRows(n - 1)
         \cup {Append(t, r) : t \in {u \in TablesOfRows(n - 1) : Len(u) = n - 1},
                              r \in TableRowInputs}

\* one-column tables: the header "Age", k cells "25" and then n - k cells "Ann"
ColumnTables ==
    {<<Row(<<S_Age>>)>> \o [i \in 1..n |-> Row(<<IF i <= k THEN <<"2", "5">> ELSE S_Ann>>)] :
        n \in 1..MaxColumnCells, k \in 0..MaxColumnCells}

InitTable ==
    /\ InitLoad /\ InitGroup /\ InitTrack
    /\ ex_text \in {[kind |-> "Table", rows |-> rows] :
                       rows \in TablesOfRows(MaxTableRows) \cup ColumnTables}
    /\ ex_out = None

ExtractTable ==
    /\ ex_out = None
    /\ ex_out' = Some(extract_table_data(ex_text))
    /\ UNCHANGED <<ex_text, loadVars, groupVars, trackVars>>

SpecTable == InitTable /\ [][ExtractTable]_vars

\* --------------------------- the formatting of a paragraph on its own
\* the children of a paragraph: runs with every combination of bold, italic
\* and underline, with or without a color, and a child that is not a run
RunInputs ==
    {[kind |-> "Run",
      run  |-> [children |-> <<>>, bold |-> b, italic |-> i, underline |-> u, color |-> c]] :
        b \in BOOLEAN, i \in BOOLEAN, u \in BOOLEAN, c \in {None, Some(<<"F", "F">>)}}
    \cup {[kind |-> "Other"]}

RECURSIVE RunsUpTo(_)
RunsUpTo(n) ==
    IF n = 0 THEN {<<>>}
    ELSE RunsUpTo(n - 1)
         \cup {Append(q, r) : q \in {u \in RunsUpTo(n - 1) : Len(u) = n - 1}, r \in RunInputs}

InitFormat ==
    /\ InitLoad /\ InitGroup /\ InitTrack
    /\ ex_text \in {Para(None, None, cs) : cs \in RunsUpTo(MaxRuns)}
    /\ ex_out = None

\* the formatting load_document computes for the paragraph
FormatParagraph ==
    /\ ex_out = None
    /\ ex_out' = Some(runs_formatting(ex_text.children, TextFormatting_default))
    /\ UNCHANGED <<ex_text, loadVars, groupVars, trackVars>>

SpecFormat == InitFormat /\ [][FormatParagraph]_vars

\* ------------------------------------------------ claims on load_document
\* the source positions of a vector of elements, a List giving its items'
RECURSIVE FlattenSrc(_)
FlattenSrc(es) ==
    IF es = <<>> THEN <<>>
    ELSE (IF Head(es).kind = "List"
          THEN [j \in 1..Len(Head(es).items) |-> Head(es).items[j].src]
          ELSE <<Head(es).src>>)
         \o FlattenSrc(Tail(es))

StrictlyIncreasing(q) == \A i, j \in 1..Len(q) : i < j => q[i] < q[j]

\* the element of the forward pass made from block number src
ElementOf(src) == elements[CHOOSE i \in 1..Len(elements) : elements[i].src = src]

StartsWithDigit(text) == trim(text) # <<>> /\ trim(text)[1] \in Digits

HasHeadingStyle(para) ==
    /\ para.style # None
    /\ starts_with(Unwrap(para.style), S_Heading) \/ starts_with(Unwrap(para.style), S_heading)

\* the get_number calls made for block number src
CallsFor(src) == {k \in 1..Len(tracker_log) : tracker_log[k].src = src}

\* C3 as stated: every heading accepted without an explicit number, by its
\* style or by the text heuristics, has a number given by the tracker.
C3_EveryUnnumberedHeadingTracked ==
    \A i \in 1..Len(elements) :
        LET e == elements[i] IN
        (/\ e.kind = "Heading"
         /\ children[e.src].numbering_property = None
         /\ extract_heading_number_from_text(extract_paragraph_text(children[e.src])) = None)
        => \E k \in CallsFor(e.src) : e.number = Some(tracker_log[k].number)

\* C3, amended: a style-matched heading with no manual and no metadata number
\* gets its number from exactly one get_number call at its level, which
\* advances the tracker; a heading accepted by the text heuristics has no
\* number and makes no get_number call; no other block calls get_number.
C3_StyleHeadingsTracked ==
    /\ \A i \in 1..Len(elements) :
         LET e == elements[i] IN
         e.kind = "Heading" =>
            IF HasHeadingStyle(children[e.src])
            THEN Unwrap(detect_heading_with_numbering(children[e.src])).number = None
                 => /\ Cardinality(CallsFor(e.src)) = 1
                    /\ \A k \in CallsFor(e.src) :
                          /\ e.number = Some(tracker_log[k].number)
                          /\ tracker_log[k].level = e.level
                          /\ tracker_log[k].after # tracker_log[k].before
            ELSE e.number = None /\ CallsFor(e.src) = {}
    /\ \A k \in 1..Len(tracker_log) :
         \E i \in 1..Len(elements) :
            /\ elements[i].src = tracker_log[k].src
            /\ elements[i].kind = "Heading"
            /\ HasHeadingStyle(children[elements[i].src])

C3_Witness ==
    /\ children = <<P_Heading1, P_BoldShort, P_Heading2>>
    /\ Len(elements) = 3
    /\ elements[1].number = Some(<<"1">>)
    /\ elements[2].kind = "Heading" /\ elements[2].number = None
    /\ elements[3].number = Some(<<"1", ".", "1">>)
    /\ Len(tracker_log) = 2

\* C4 as stated: every Heading element of the Document has a level in 1..6.
C4_HeadingLevelInRange ==
    document # None =>
        \A i \in 1..Len(Unwrap(document).elements) :
            Unwrap(document).elements[i].kind = "Heading"
            => Unwrap(document).elements[i].level \in 1..6

\* the number the fixed table gives for (numbering level, style level)
TableNumber(numbering_level, style_level) ==
    LET tiers == << <<"1">>, <<"1", ".", "1">>, <<"1", ".", "1", ".", "1">>,
                    <<"1", ".", "1", ".", "1", ".", "1">> >>
    IN IF numbering_level + 1 = style_level /\ style_level <= 4 THEN tiers[style_level]
       ELSE tiers[IF style_level >= 4 THEN 4 ELSE style_level]

\* C6 as stated: a paragraph with a heading style, no manual number and
\* numbering metadata (id, level) is emitted as a Heading whose number comes
\* from the fixed table and whose text is the paragraph text.
C6_MetadataHeadingEmitted ==
    document # None =>
        \A src \in 1..Len(children) :
            LET para == children[src] IN
            (/\ para.kind = "Paragraph"
             /\ HasHeadingStyle(para)
             /\ para.numbering_property # None
             /\ Unwrap(para.numbering_property).id # None
             /\ ~is_empty(trim(runs_text(para.children)))
             /\ extract_heading_number_from_text(extract_paragraph_text(para)) = None)
            => \E i \in 1..Len(Unwrap(document).elements) :
                  LET e == Unwrap(document).elements[i] IN
                  /\ e.kind = "Heading"
                  /\ e.src = src
                  /\ e.number = Some(TableNumber(
                                        as_u8(Unwrap(Unwrap(para.numbering_property).level)),
                                        Unwrap(detect_heading_from_paragraph_style(para))))
                  /\ e.text = extract_paragraph_text(para)

\* C7: in the output of group_list_items every item of a List comes from a
\* paragraph whose ordering (its trimmed text starts with a digit) is the
\* List's ordered flag, so two list paragraphs of different ordering are
\* never items of the same List.
C7_ListItemsShareOrdering ==
    pc \in {"clean", "done"} =>
        \A g \in 1..Len(grouped) :
            grouped[g].kind = "List" =>
                \A j \in 1..Len(grouped[g].items) :
                    LET p == ElementOf(grouped[g].items[j].src) IN
                    /\ p.kind = "Paragraph"
                    /\ StartsWithDigit(p.text) = grouped[g].ordered

C7_Witness ==
    /\ pc = "done"
    /\ children = <<P_FirstBullet, P_LongNumbered, P_SecondBullet>>
    /\ Len(grouped) = 3
    /\ grouped[1].kind = "List" /\ ~grouped[1].ordered
    /\ grouped[2].kind = "List" /\ grouped[2].ordered
    /\ grouped[2].items = <<[text |-> S_numbered_item, level |-> 0, src |-> 2]>>
    /\ grouped[3].kind = "List" /\ ~grouped[3].ordered

\* C8: group_list_items neither loses nor duplicates: its output, with every
\* List replaced by its items, is its input in order; exactly the
\* list-classified paragraphs become items and every other element is passed
\* on as it is; no List is empty; two Lists that follow each other differ in
\* ordering (each is a maximal run); two bullet paragraphs give one unordered
\* List of two items.
C8_GroupingKeepsItems ==
    pc \in {"clean", "done"} =>
        /\ FlattenSrc(grouped) = [i \in 1..Len(elements) |-> elements[i].src]
        /\ \A g \in 1..Len(grouped) :
              IF grouped[g].kind = "List"
              THEN /\ grouped[g].items # <<>>
                   /\ \A j \in 1..Len(grouped[g].items) :
                         /\ ElementOf(grouped[g].items[j].src).kind = "Paragraph"
                         /\ is_likely_list_item(ElementOf(grouped[g].items[j].src).text)
                   /\ g < Len(grouped) /\ grouped[g + 1].kind = "List"
                         => grouped[g + 1].ordered # grouped[g].ordered
              ELSE /\ grouped[g] = ElementOf(grouped[g].src)
                   /\ ~(grouped[g].kind = "Paragraph" /\ is_likely_list_item(grouped[g].text))
        /\ children = <<P_FirstBullet, P_SecondBullet>> =>
              grouped = <<ListElement(<<[text |-> S_First_item, level |-> 0, src |-> 1],
                                        [text |-> S_Second_item, level |-> 0, src |-> 2]>>,
                                      FALSE)>>

C8_Witness ==
    /\ pc = "done"
    /\ children = <<P_Heading1, P_FirstBullet, P_SecondBullet>>
    /\ Len(grouped) = 2
    /\ grouped[2].kind = "List"
    /\ Len(grouped[2].items) = 2

\* C9 as stated: for the paragraphs "(bullet) First item", "1. Third item",
\* "(bullet) Second item" the Document starts with an unordered List holding
\* "First item" followed by an ordered List holding "Third item".
C9_NumberedParagraphSplitsByOrdering ==
    (document # None /\ children = <<P_FirstBullet, P_ThirdNumbered, P_SecondBullet>>)
    => /\ Len(Unwrap(document).elements) >= 2
       /\ Unwrap(document).elements[1].kind = "List"
       /\ ~Unwrap(document).elements[1].ordered
       /\ Unwrap(document).elements[1].items[1].text = S_First_item
       /\ Unwrap(document).elements[2].kind = "List"
       /\ Unwrap(document).elements[2].ordered
       /\ Unwrap(document).elements[2].items[1].text = S_Third_item

\* C10: the element list keeps the source order after each pass: the source
\* positions of the elements, a List counting as its items in place, increase
\* strictly in the forward pass's vector, in the grouped vector and in the
\* Document, and the Document holds exactly the blocks the forward pass kept.
C10_SourceOrderPreserved ==
    /\ StrictlyIncreasing([i \in 1..Len(elements) |-> elements[i].src])
    /\ \A i \in 1..Len(elements) : elements[i].src \in 1..Len(children)
    /\ pc \in {"clean", "done"} => StrictlyIncreasing(FlattenSrc(grouped))
    /\ document # None =>
          /\ StrictlyIncreasing(FlattenSrc(Unwrap(document).elements))
          /\ FlattenSrc(Unwrap(document).elements)
                = [i \in 1..Len(elements) |-> elements[i].src]

C10_Witness ==
    /\ document # None
    /\ children = <<P_FirstBullet, P_Heading1, P_LongNumbered>>
    /\ Len(Unwrap(document).elements) = 3
    /\ Unwrap(document).elements[1].kind = "List"
    /\ Unwrap(document).elements[2].kind = "Heading"
    /\ Unwrap(document).elements[3].kind = "List"
    /\ FlattenSrc(Unwrap(document).elements) = <<1, 2, 3>>

\* the texts of the Paragraph elements and list items of a vector of elements
RECURSIVE TextsOf(_)
TextsOf(es) ==
    IF es = <<>> THEN <<>>
    ELSE (IF Head(es).kind = "List"
          THEN [j \in 1..Len(Head(es).items) |-> Head(es).items[j].text]
          ELSE IF Head(es).kind = "Paragraph" THEN <<Head(es).text>>
          ELSE <<>>)
         \o TextsOf(Tail(es))

\* C11 as stated: no Paragraph text and no ListItem text of the Document
\* begins with the tag "__WORD_LIST__", whatever the input texts.
C11_NoTagInDocument ==
    document # None =>
        \A i \in 1..Len(TextsOf(Unwrap(document).elements)) :
            ~starts_with(TextsOf(Unwrap(document).elements)[i], S_WORD_LIST)

\* the number of maximal runs of non-whitespace characters of a text
Words(text) ==
    Cardinality({i \in 1..Len(text) :
        text[i] \notin Spaces /\ (i = 1 \/ text[i - 1] \in Spaces)})

\* the concatenated Text children of the runs of a paragraph
RECURSIVE RunTexts(_)
RunTexts(cs) ==
    IF cs = <<>> THEN <<>>
    ELSE (IF Head(cs).kind = "Text" THEN Head(cs).text ELSE <<>>) \o RunTexts(Tail(cs))

RECURSIVE ParaText(_)
ParaText(cs) ==
    IF cs = <<>> THEN <<>>
    ELSE (IF Head(cs).kind = "Run" THEN RunTexts(Head(cs).run.children) ELSE <<>>)
         \o ParaText(Tail(cs))

\* the words of the paragraphs among the first n blocks that are forwarded
RECURSIVE ForwardedWords(_)
ForwardedWords(n) ==
    IF n = 0 THEN 0
    ELSE ForwardedWords(n - 1)
         + (IF children[n].kind = "Paragraph" THEN Words(ParaText(children[n].children))
            ELSE 0)

\* C18: word_count is the sum over the paragraphs read so far of the number
\* of whitespace-separated words of the paragraph text; a blank paragraph has
\* none and is not forwarded, every other paragraph is forwarded as exactly
\* one element or list item and counted once; tables count nothing; the
\* Document's metadata carries that sum.
C18_WordCount ==
    /\ word_count = ForwardedWords(Len(children))
    /\ \A n \in 1..Len(children) :
          Cardinality({i \in 1..Len(elements) : elements[i].src = n})
             = IF \/ /\ children[n].kind = "Paragraph"
                     /\ Words(ParaText(children[n].children)) > 0
                  \/ /\ children[n].kind = "Table"
                     /\ \E r \in 1..Len(children[n].rows) : children[n].rows[r] # <<>>
               THEN 1 ELSE 0
    /\ document # None =>
          /\ Unwrap(document).metadata.word_count = ForwardedWords(Len(children))
          /\ Len(FlattenSrc(Unwrap(document).elements)) = Len(elements)

C18_Witness ==
    /\ document # None
    /\ children = <<P_Heading1, P_Blank, P_LongNumbered>>
    /\ Unwrap(document).metadata.word_count = 7

\* C19 as stated: a paragraph whose run text is blank gives no element and no
\* word count, and no Paragraph, Heading or ListItem of the Document has an
\* empty or whitespace-only text.
C19_NoBlankText ==
    /\ \A n \in 1..Len(children) :
          (children[n].kind = "Paragraph" /\ Words(ParaText(children[n].children)) = 0)
          => \A i \in 1..Len(elements) : elements[i].src # n
    /\ document # None =>
          /\ \A i \in 1..Len(TextsOf(Unwrap(document).elements)) :
                Words(TextsOf(Unwrap(document).elements)[i]) > 0
          /\ \A i \in 1..Len(Unwrap(document).elements) :
                Unwrap(document).elements[i].kind = "Heading"
                => Words(Unwrap(document).elements[i].text) > 0

\* the ordering the metadata rule gives to (id, level)
MetadataOrdered(id, level) ==
    IF id = None THEN FALSE
    ELSE IF Unwrap(id) # 1 THEN TRUE
    ELSE IF level = 0 THEN FALSE
    ELSE IF level \in {1, 2} THEN TRUE
    ELSE level % 2 = 1

\* the level the numbering metadata of ex_text declares (0 when not given)
DeclaredLevel ==
    IF Unwrap(ex_text.numbering_property).level = None THEN 0
    ELSE Unwrap(Unwrap(ex_text.numbering_property).level)

\* the level of the item, a u8
TagLevel == DeclaredLevel % 256

\* the paragraph branch has pushed an element for ex_text
Pushed == ex_out \notin {None, Panic}

\* C12 as stated: the tagged text of a metadata list item is not recognised
\* by the list text detector, and the text with the tag stripped is.
C12_StrippedTextIsListItem ==
    Pushed =>
        /\ ~is_likely_list_item(Unwrap(Unwrap(ex_out)).text)
        /\ is_likely_list_item(strip_word_list(Unwrap(Unwrap(ex_out)).text))

\* C12, amended: the tagged text of a metadata list item is never recognised
\* by the list text detector; the text with the tag stripped is recognised
\* as a list item when its marker is "* " (unordered), "i. ", "A. " or "I. "
\* (ordered, levels 2, 3, 4), never when its marker is "a) " (ordered, level
\* 1), and for a number marker ("1. " at level 0, "<level+1>. " from level 5)
\* only when more than 20 bytes of text follow.
C12_TagRoundTrip ==
    Pushed =>
        LET tagged   == Unwrap(Unwrap(ex_out)).text
            stripped == strip_word_list(tagged)
            ordered  == MetadataOrdered(Unwrap(ex_text.numbering_property).id, TagLevel)
            body     == ParaText(ex_text.children)
        IN /\ Unwrap(Unwrap(ex_out)).kind = "Paragraph"
           /\ starts_with(tagged, S_WORD_LIST)
           /\ stripped # tagged
           /\ ~is_likely_list_item(tagged)
           /\ is_likely_list_item(stripped)
                 <=> \/ ~ordered
                     \/ TagLevel \in {2, 3, 4}
                     \/ TagLevel \notin {1, 2, 3, 4} /\ Len(body) > 20

C12_Witness ==
    /\ ex_text = Para(None, Some([id |-> Some(1), level |-> Some(1)]),
                      <<Run(<<TextChild(S_Overview)>>, FALSE)>>)
    /\ Pushed
    /\ Unwrap(Unwrap(ex_out)).text = S_WORD_LIST \o <<" ", " ", "a", ")", " ">> \o S_Overview
    /\ ~is_likely_list_item(strip_word_list(Unwrap(Unwrap(ex_out)).text))

\* ------------------------------------------------ claims on the tables
\* the rows of the source table that have cells, and the trimmed text of a
\* cell (the cells of the table specification hold one run)
RowsWithCells == SelectSeq(ex_text.rows, LAMBDA row : row # <<>>)

ContentsOf(row) == [i \in 1..Len(row) |-> trim(row[i][1])]

EmittedContents(cells) == [i \in 1..Len(cells) |-> cells[i].content]

TableOut == Unwrap(Unwrap(ex_out))

\* C13: extract_table_data gives a Table exactly when a row of the source
\* table has a cell; an emitted table never has both headers and rows empty,
\* and a table with a single row with cells is emitted with that row as
\* header and no data rows.
C13_TableEmittedIffCells ==
    ex_out # None =>
        /\ Unwrap(ex_out) # None <=> RowsWithCells # <<>>
        /\ Unwrap(ex_out) # None =>
              /\ ~(TableOut.headers = <<>> /\ TableOut.rows = <<>>)
              /\ Len(RowsWithCells) = 1 => TableOut.headers # <<>> /\ TableOut.rows = <<>>

C13_Witness ==
    /\ ex_text.rows = <<<<>>, Row(<<S_Name, S_Age, <<"C", "i", "t", "y">> >>), <<>> >>
    /\ ex_out # None
    /\ Unwrap(ex_out) # None
    /\ TableOut.rows = <<>>
    /\ Len(TableOut.headers) = 3

\* C14: for every emitted table the header is the first source row that has
\* cells, whether it passed the header test or was promoted, the data rows
\* are the other rows with cells in source order, and has_headers is true.
C14_HeaderIsFirstRow ==
    (ex_out # None /\ Unwrap(ex_out) # None) =>
        /\ EmittedContents(TableOut.headers) = ContentsOf(Head(RowsWithCells))
        /\ Len(TableOut.rows) = Len(RowsWithCells) - 1
        /\ \A r \in 1..Len(TableOut.rows) :
              EmittedContents(TableOut.rows[r]) = ContentsOf(RowsWithCells[r + 1])
        /\ TableOut.metadata.has_headers
        /\ TableOut.metadata.row_count = Len(RowsWithCells) - 1

C14_Witness ==
    /\ ex_text.rows = <<Row(<<S_numbered_item>>), <<>>,
                        Row(<<S_Name, S_Age, <<"C", "i", "t", "y">> >>)>>
    /\ ~appears_to_be_header(<<S_numbered_item>>)
    /\ ex_out # None
    /\ EmittedContents(TableOut.headers) = <<S_numbered_item>>
    /\ Len(TableOut.rows) = 1

\* the cells of the emitted table, headers first
EmittedCells ==
    IF ex_out = None \/ Unwrap(ex_out) = None THEN {}
    ELSE {TableOut.headers[i] : i \in 1..Len(TableOut.headers)}
         \cup UNION {{TableOut.rows[r][i] : i \in 1..Len(TableOut.rows[r])} :
                        r \in 1..Len(TableOut.rows)}

IsDigits(x) == x # <<>> /\ \A i \in 1..Len(x) : x[i] \in Digits

DigitValue(c) ==
    CHOOSE d \in 0..9 : <<"0", "1", "2", "3", "4", "5", "6", "7", "8", "9">>[d + 1] = c

RECURSIVE NatValue(_)
NatValue(x) ==
    IF x = <<>> THEN 0
    ELSE 10 * NatValue(SubSeq(x, 1, Len(x) - 1)) + DigitValue(x[Len(x)])

\* a decimal numeral, after an optional '+', of a value below 2^32 = 4294967296
IsU32Text(x) ==
    LET y == IF x # <<>> /\ x[1] = "+" THEN Tail(x) ELSE x
        significant == {i \in 1..Len(y) : \E j \in 1..i : y[j] # "0"}
    IN /\ IsDigits(y)
       /\ \/ Cardinality(significant) < 10
          \/ /\ Cardinality(significant) = 10
             /\ LET hi == NatValue(SubSeq(y, Len(y) - 9, Len(y) - 5))
                    lo == NatValue(SubSeq(y, Len(y) - 4, Len(y)))
                IN hi < 42949 \/ (hi = 42949 /\ lo <= 67295)

\* a float numeral: a sign, then inf, infinity or nan in any case, or a
\* mantissa of digits with at most one point and at least one digit and then
\* an optional exponent e, sign, digits
IsFloatText(x) ==
    LET y == IF x # <<>> /\ x[1] \in {"+", "-"} THEN Tail(x) ELSE x
        Mantissa(m) == /\ \A i \in 1..Len(m) : m[i] \in Digits \cup {"."}
                       /\ Cardinality({i \in 1..Len(m) : m[i] = "."}) <= 1
                       /\ \E i \in 1..Len(m) : m[i] \in Digits
        Exponent(e) == \/ e = <<>>
                       \/ /\ e[1] \in {"e", "E"}
                          /\ IsDigits(IF Len(e) >= 2 /\ e[2] \in {"+", "-"}
                                      THEN SubSeq(e, 3, Len(e)) ELSE Tail(e))
    IN \/ to_lowercase(y) \in {<<"i", "n", "f">>, <<"n", "a", "n">>,
                               <<"i", "n", "f", "i", "n", "i", "t", "y">>}
       \/ \E k \in 1..Len(y) :
             Mantissa(SubSeq(y, 1, k)) /\ Exponent(SubSeq(y, k + 1, Len(y)))

\* exactly three parts between the '/' and '-' of x, each satisfying IsPart
IsDateText(x, IsPart(_)) ==
    LET seps == {i \in 1..Len(x) : x[i] \in {"/", "-"}} IN
    /\ Cardinality(seps) = 2
    /\ LET p == CHOOSE i \in seps : \A j \in seps : i <= j
           q == CHOOSE i \in seps : \A j \in seps : j <= i
       IN /\ IsPart(SubSeq(x, 1, p - 1))
          /\ IsPart(SubSeq(x, p + 1, q - 1))
          /\ IsPart(SubSeq(x, q + 1, Len(x)))

\* the type of the first rule that matches, the date parts judged by IsPart
FirstRule(content, IsPart(_)) ==
    LET x == trim(content) IN
    CASE x = <<>> -> "Empty"
      [] x # <<>> /\ x[1] \in {"$", EURO, POUND} -> "Currency"
      [] x # <<>> /\ x[1] \notin {"$", EURO, POUND} /\ x[Len(x)] = "%" -> "Percentage"
      [] OTHER ->
           IF to_lowercase(x) \in {<<"t", "r", "u", "e">>, <<"f", "a", "l", "s", "e">>,
                                   <<"y", "e", "s">>, <<"n", "o">>, <<"y">>, <<"n">>}
           THEN "Boolean"
           ELSE IF IsFloatText(SelectSeq(x, LAMBDA c : c # ",")) THEN "Number"
           ELSE IF IsDateText(x, IsPart) THEN "Date"
           ELSE "Text"

AlignmentOf(type) ==
    CASE type \in {"Number", "Currency", "Percentage"} -> "Right"
      [] type = "Boolean" -> "Center"
      [] OTHER -> "Left"

\* C15 as stated: every cell has the type of the first matching rule, a Date
\* being three parts that are all non-negative integers, and the alignment
\* of its type.
C15_CellTypeAsStated ==
    \A cell \in EmittedCells :
        /\ cell.data_type = FirstRule(cell.content, IsDigits)
        /\ cell.alignment = AlignmentOf(cell.data_type)

\* C15, amended: every cell has the type of the first matching rule in the
\* order Empty, Currency, Percentage, Boolean, Number, Date, Text, where a
\* Number is a text that, commas removed, is a float numeral (inf, infinity
\* and nan included) and a Date is three parts that are each a decimal
\* numeral below 2^32, an optional '+' before it; the alignment is Right for
\* Number, Currency and Percentage, Center for Boolean, Left otherwise.
C15_CellType ==
    \A cell \in EmittedCells :
        /\ cell.data_type = FirstRule(cell.content, IsU32Text)
        /\ cell.alignment = AlignmentOf(cell.data_type)

C15_Witness ==
    /\ ex_out # None
    /\ \E cell \in EmittedCells :
          cell = [content |-> <<"$", "5", "%">>, alignment |-> "Right", data_type |-> "Currency"]
    /\ \E cell \in EmittedCells :
          cell = [content |-> <<"T", "r", "u", "e", "%">>, alignment |-> "Right",
                  data_type |-> "Percentage"]
    /\ \E cell \in EmittedCells :
          /\ cell.content = <<"1", "/", "2", "/", "4", "2", "9", "4", "9", "6", "7", "2", "9", "6">>
          /\ cell.data_type = "Text"
    /\ \E cell \in EmittedCells :
          cell.content = <<"y", "e", "s">> /\ cell.data_type = "Boolean"
                                           /\ cell.alignment = "Center"
    /\ \E cell \in EmittedCells :
          cell.content = <<"1", "2", "/", "3", "1", "/", "2", "0", "2", "4">>
             /\ cell.data_type = "Date"
    /\ \E cell \in EmittedCells :
          cell.content = <<"i", "n", "f">> /\ cell.data_type = "Number"

\* the data rows of the emitted table that have a cell in column c
RowsWithColumn(c) == {r \in 1..Len(TableOut.rows) : c <= Len(TableOut.rows[r])}

NumericRows(c) ==
    {r \in RowsWithColumn(c) :
        TableOut.rows[r][c].data_type \in {"Number", "Currency", "Percentage"}}

\* C16: column_alignments has one entry per header cell; entry c is Right
\* exactly when strictly more than 70% of the data cells of column c are
\* typed Number, Currency or Percentage, and Left otherwise, also when the
\* column has no data cell; the columns "25","30" and "$30,000","$45,000"
\* are typed Number and Currency and are Right.
C16_ColumnAlignment ==
    (ex_out # None /\ Unwrap(ex_out) # None) =>
        /\ Len(TableOut.metadata.column_alignments) = Len(TableOut.headers)
        /\ \A c \in 1..Len(TableOut.headers) :
              /\ TableOut.metadata.column_alignments[c] \in {"Left", "Right"}
              /\ TableOut.metadata.column_alignments[c] = "Right"
                    <=> 100 * Cardinality(NumericRows(c)) > 70 * Cardinality(RowsWithColumn(c))
        /\ ex_text.rows = <<Row(<<S_Name, S_Age, <<"C", "i", "t", "y">> >>),
                            Row(<<S_Ann, <<"2", "5">>, <<"$", "3", "0", ",", "0", "0", "0">> >>),
                            Row(<<<<"R", "e", "n", "e", COMBINING_ACUTE>>, <<"3", "0">>,
                                  <<"$", "4", "5", ",", "0", "0", "0">> >>)>>
             => /\ TableOut.metadata.column_alignments = <<"Left", "Right", "Right">>
                /\ \A r \in 1..2 : /\ TableOut.rows[r][2].data_type = "Number"
                                   /\ TableOut.rows[r][3].data_type = "Currency"

\* a one-column table whose ten data cells are seven numbers and three texts
\* (exactly 70%) is Left
C16_Witness ==
    /\ ex_out # None /\ Unwrap(ex_out) # None
    /\ Len(TableOut.headers) = 1
    /\ Cardinality(RowsWithColumn(1)) = 10
    /\ Cardinality(NumericRows(1)) = 7
    /\ TableOut.metadata.column_alignments = <<"Left">>

\* the number of grapheme clusters of a text
Graphemes(x) == Cardinality({i \in 1..Len(x) : x[i] # COMBINING_ACUTE})

\* C17: column_widths has one entry per header cell, the largest of 3, the
\* grapheme count of the header cell and the grapheme counts of the data
\* cells of the column; no header or data cell of a header column is wider
\* than its column.
C17_ColumnWidths ==
    (ex_out # None /\ Unwrap(ex_out) # None) =>
        /\ Len(TableOut.metadata.column_widths) = Len(TableOut.headers)
        /\ TableOut.metadata.column_count = Len(TableOut.headers)
        /\ \A c \in 1..Len(TableOut.headers) :
              LET w == TableOut.metadata.column_widths[c]
                  counts == {3, Graphemes(TableOut.headers[c].content)}
                            \cup {Graphemes(TableOut.rows[r][c].content) :
                                     r \in RowsWithColumn(c)}
              IN w \in counts /\ \A n \in counts : n <= w

\* the cell "Rene" + combining acute: 6 bytes, 5 code points, 4 graphemes
C17_Witness ==
    /\ ex_out # None
    /\ ex_text.rows = <<Row(<<S_Ann, <<"2", "5">>, <<"$", "3", "0", ",", "0", "0", "0">> >>),
                        Row(<<<<"R", "e", "n", "e", COMBINING_ACUTE>>, <<"3", "0">>,
                              <<"$", "4", "5", ",", "0", "0", "0">> >>),
                        Row(<<<<"i", "n", "f">>, <<"1", ",", "2", "3", "4", ".", "5">>,
                              <<"n", "/", "a">>, <<"-", "5">> >>)>>
    /\ TableOut.metadata.column_widths = <<4, 7, 7>>

\* ------------------------------------------- claims on the formatting
\* the positions of the runs of ex_text that have bold or italic set
FormattedRuns ==
    {i \in 1..Len(ex_text.children) :
        /\ ex_text.children[i].kind = "Run"
        /\ ex_text.children[i].run.bold \/ ex_text.children[i].run.italic}

\* C20: when a run of the paragraph has bold or italic set, the formatting
\* of the paragraph is the bold, italic, underline and color of the first
\* such run: the runs before it and the runs after it leave no trace.
C20_FirstFormattedRun ==
    (ex_out # None /\ FormattedRuns # {}) =>
        LET first == CHOOSE i \in FormattedRuns : \A j \in FormattedRuns : i <= j
            run   == ex_text.children[first].run
        IN Unwrap(ex_out) = [bold |-> run.bold, italic |-> run.italic,
                             underline |-> run.underline, font_size |-> None,
                             color |-> run.color]

C20_Witness ==
    /\ ex_out # None
    /\ Len(ex_text.children) = 3
    /\ ex_text.children[1].kind = "Run"
    /\ ex_text.children[1].run.underline /\ ex_text.children[1].run.color # None
    /\ FormattedRuns = {2, 3}
    /\ ex_text.children[3].run.italic /\ ex_text.children[3].run.underline
    /\ Unwrap(ex_out) = [bold |-> TRUE, italic |-> FALSE, underline |-> FALSE,
                         font_size |-> None, color |-> None]

\* ------------------------------------- claims on the metadata list detector
\* C21: a paragraph with numbering metadata gets the level its metadata
\* declares (0 when absent), and, when the metadata has an id, the ordering
\* of the rule: id 1 is unordered at level 0, ordered at levels 1 and 2 and
\* above 2 ordered iff the level is odd; any other id is ordered.
C21_LevelAndOrdering ==
    LET list_info == detect_list_from_paragraph_numbering(ex_text)
        id        == Unwrap(ex_text.numbering_property).id
    IN /\ list_info # None
       /\ Unwrap(list_info).level = DeclaredLevel
       /\ id # None => Unwrap(list_info).is_ordered = MetadataOrdered(id, DeclaredLevel)

\* C22: the paragraph branch of the conversion never panics, whatever the
\* style, the numbering id and level and the text of the paragraph.
C22_NoPanic == ex_out # Panic

\* ---------------------------------------------- claims on two conversions
\* C23: each of two conversions, whatever the interleaving of their steps,
\* holds the elements and counters it would hold alone on the blocks it has
\* read, and returns the Document it would return alone; the first heading
\* of style "Heading1" without a manual number is numbered "1" in both.
C23_ConversionsIndependent ==
    \A c \in 1..2 :
        /\ \E alone \in {load_loop(Conversion_new, ex_text[c].children)} :
              /\ ex_text[c].elements = alone.elements
              /\ ex_text[c].heading_tracker = alone.heading_tracker
        /\ ex_text[c].pc = "done" => ex_text[c].document = load_document(ex_text[c].children)
        /\ \A i \in 1..Len(ex_text[c].elements) :
              /\ ex_text[c].elements[i].kind = "Heading"
              /\ ex_text[c].elements[i].level = 1
              /\ \A j \in 1..(i - 1) : ex_text[c].elements[j].kind # "Heading"
              => ex_text[c].elements[i].number = Some(<<"1">>)

\* both calls are in their loops, the first has read two headings and the
\* second one, and the second call's heading is numbered "1"
C23_Witness ==
    /\ ex_text[1].pc = "load" /\ ex_text[2].pc = "load"
    /\ ex_text[1].children = <<P_Heading1, P_Heading1>>
    /\ ex_text[1].elements[2].number = Some(<<"2">>)
    /\ ex_text[2].children = <<P_Heading1>>
    /\ ex_text[2].elements[1].number = Some(<<"1">>)

\* ---------------------------------------------------- claims on the viewer
\* the characters kept of a truncated result text
KeptPrefix == SubSeq(Unwrap(ex_out), 1, Len(Unwrap(ex_out)) - 3)

\* C24: a result text of more than 80 bytes is cut without a panic to a
\* prefix of at most 77 bytes that ends on a character boundary and does
\* not split a grapheme cluster (the character after the cut is not a
\* combining mark).
C24_GraphemeSafeCut ==
    ex_out # None /\ len(ex_text) > 80 =>
        /\ ex_out # Panic
        /\ ends_with(Unwrap(ex_out), <<".", ".", ".">>)
        /\ starts_with(ex_text, KeptPrefix)
        /\ len(KeptPrefix) <= 77
        /\ ex_text[Len(KeptPrefix) + 1] # COMBINING_ACUTE

\* the part of C24 the code keeps: no panic, at most 77 bytes, a character
\* boundary, and the largest such prefix
C24_CharBoundaryCut ==
    ex_out # None /\ len(ex_text) > 80 =>
        /\ ex_out # Panic
        /\ ends_with(Unwrap(ex_out), <<".", ".", ".">>)
        /\ starts_with(ex_text, KeptPrefix)
        /\ len(KeptPrefix) <= 77
        /\ len(KeptPrefix) + len_utf8(ex_text[Len(KeptPrefix) + 1]) > 77

\* C28: whenever search_results is not empty, current_search_index is an
\* index into it, and from there next_search_result and prev_search_result
\* stay in the range, wrapping from the last result to the first and from
\* the first to the last.
C28_SearchIndexValid ==
    ex_text.search_results # <<>> =>
        /\ ex_text.current_search_index \in 0..(Len(ex_text.search_results) - 1)
        /\ next_search_result(ex_text).current_search_index =
              (IF ex_text.current_search_index = Len(ex_text.search_results) - 1
               THEN 0 ELSE ex_text.current_search_index + 1)
        /\ prev_search_result(ex_text).current_search_index =
              (IF ex_text.current_search_index = 0
               THEN Len(ex_text.search_results) - 1
               ELSE ex_text.current_search_index - 1)

\* the query "o" was typed, it has four results, and the last is current
C28_Witness ==
    /\ ex_text.current_view = "Search"
    /\ ex_text.search_query = <<"o">>
    /\ Len(ex_text.search_results) = 4
    /\ ex_text.current_search_index = 3
    /\ ex_text.scroll_offset = 2

\* C29: scroll_offset is the index of an element of the document, or 0
\* when the document has no element.
C29_ScrollOffsetInRange ==
    IF ex_text.document = <<>> THEN ex_text.scroll_offset = 0
    ELSE ex_text.scroll_offset < Len(ex_text.document)

\* ------------------------------------------ claims on the classification
\* the text pushed for ex_text after the tag and the indent of its level
AfterIndent ==
    From(Unwrap(Unwrap(ex_out)).text, Len(S_WORD_LIST) + 2 * TagLevel + 1)

LeadingSpaces(text) ==
    IF \A i \in 1..Len(text) : text[i] = " " THEN Len(text)
    ELSE (CHOOSE i \in 1..Len(text) : text[i] # " " /\ \A j \in 1..(i - 1) : text[j] = " ") - 1

\* C26: the paragraph is stored as the one item of a List, and the level of
\* the item is floor(n / 2) for the n leading spaces of the raw text.
C26_LevelIsHalfTheSpaces ==
    ex_out # None =>
        /\ Len(Unwrap(ex_out)) = 1
        /\ Unwrap(ex_out)[1].kind = "List"
        /\ Len(Unwrap(ex_out)[1].items) = 1
        /\ Unwrap(ex_out)[1].items[1].level = LeadingSpaces(ex_text) \div 2

\* what the code keeps of C26: the level is floor(n / 2) in 8 bits
C26_LevelIsHalfTheSpacesMod256 ==
    ex_out # None =>
        /\ Len(Unwrap(ex_out)) = 1
        /\ Unwrap(ex_out)[1].kind = "List"
        /\ Len(Unwrap(ex_out)[1].items) = 1
        /\ Unwrap(ex_out)[1].items[1].level = (LeadingSpaces(ex_text) \div 2) % 256

\* --------------------------------------------- claims on the number strings
\* C27: when every heading level asked for is in 1..6, no two get_number
\* calls of a document return the same number string.
C27_NumbersUnique ==
    (\A i \in 1..Len(tracker_log) : tracker_log[i].level \in 1..6) =>
        \A i, j \in 1..Len(tracker_log) :
            i < j => tracker_log[i].number # tracker_log[j].number

\* ------------------------------------------- claims on the user's own text
\* C30: a paragraph without numbering metadata whose text begins with
\* "__WORD_LIST__" is in the Document as a Paragraph or Heading with its
\* text as it was read.
C30_OwnTagTextUnchanged ==
    document # None =>
        \A n \in 1..Len(children) :
            (/\ children[n].kind = "Paragraph"
             /\ children[n].numbering_property = None
             /\ starts_with(ParaText(children[n].children), S_WORD_LIST))
            => \E i \in 1..Len(Unwrap(document).elements) :
                  /\ Unwrap(document).elements[i].kind \in {"Paragraph", "Heading"}
                  /\ Unwrap(document).elements[i].src = n
                  /\ Unwrap(document).elements[i].text = ParaText(children[n].children)









====
